---- MODULE Spec2Model ----
(***************************************************************************)
(* node-sms-transceiver: the AT transport (SmsModem, lib/sms-modem.js) and *)
(* the session layer (SmsTransceiver, lib/sms-transceiver.js) as a state   *)
(* machine.  One step of the machine is one turn of the JavaScript event   *)
(* loop: an application call, a serial-port callback, a timer expiry or a  *)
(* promise reaction.  Promise reactions that are queued run before any     *)
(* other turn.                                                             *)
(*                                                                         *)
(* Text is modelled as a sequence of one-character strings so that the     *)
(* line-break normalisation and the regular-expression tests of the source *)
(* are computed, not assumed.                                              *)
(***************************************************************************)
EXTENDS Integers, Sequences, FiniteSets, TLC

----------------------------------------------------------------------------
(* Bounds of the exploration *)

\* execCommand closures (timer + write callback) alive at the same time
MaxClosures == 3
\* port.write callbacks outstanding at the same time
MaxWrites == 2
\* open() calls that registered listeners without an intervening reset
MaxListeners == 2
\* longest unterminated response buffer explored, in characters
MaxResponseLen == 13

----------------------------------------------------------------------------
(* Characters and the chunks the modem sends *)

CR == "\r"
LF == "\n"

StrOK == <<"O", "K">>
StrERROR == <<"E", "R", "R", "O", "R">>
StrPrompt == <<">", " ">>
StrCSQ == <<"+", "C", "S", "Q", ":", " ", "2", "4", ",", "9", "9">>
StrCME == <<"+", "C", "M", "E", " ", "E", "R", "R", "O", "R", ":", " ", "3">>
StrCMS == <<"+", "C", "M", "S", " ", "E", "R", "R", "O", "R", ":", " ", "3">>
StrCMTI == <<"+", "C", "M", "T", "I", ":">>
StrCMTI1 == StrCMTI \o <<" ", "\"", "S", "M", "\"", ",", "1">>

CRLF == <<CR, LF>>

\* "\r\nOK\r\n"
ChunkOK == CRLF \o StrOK \o CRLF
\* "\r\nERROR\r\n"
ChunkERROR == CRLF \o StrERROR \o CRLF
\* "\r\n> "
ChunkPrompt == CRLF \o StrPrompt
\* "\r\n+CSQ: 24,99\r\n": a response line, the terminator comes in a later chunk
ChunkCSQ == CRLF \o StrCSQ \o CRLF
\* "\r\n+CSQ: 24,99\r\n\r\nOK\r\n": a whole response in one chunk
ChunkCSQOK == CRLF \o StrCSQ \o CRLF \o CRLF \o StrOK \o CRLF
\* "\r\n+CME ERROR: 3\r\n", "\r\n+CMS ERROR: 3\r\n"
ChunkCME == CRLF \o StrCME \o CRLF
ChunkCMS == CRLF \o StrCMS \o CRLF
\* "\r\n+CMTI: \"SM\",1\r\n": new-message indication
ChunkCMTI == CRLF \o StrCMTI1 \o CRLF

\* the chunks a modem sends while the session is brought up
ReplyChunks == {ChunkOK, ChunkERROR, ChunkCMTI}

Chunks == {ChunkOK, ChunkERROR, ChunkPrompt, ChunkCSQ, ChunkCSQOK,
           ChunkCME, ChunkCMS, ChunkCMTI}

UpperOrDigit == {"A", "B", "C", "D", "E", "F", "G", "H", "I", "J", "K", "L", "M",
                 "N", "O", "P", "Q", "R", "S", "T", "U", "V", "W", "X", "Y", "Z",
                 "0", "1", "2", "3", "4", "5", "6", "7", "8", "9"}

Digits == <<"0", "1", "2", "3", "4", "5", "6", "7", "8", "9">>

WhiteSpace == {" ", CR, LF, "\t"}

----------------------------------------------------------------------------
(* String functions of the source *)

\* s.replace(/\x0d\x0a/g, '\n')
RECURSIVE ReplaceCRLF(_)
ReplaceCRLF(d) ==
  IF d = <<>> THEN <<>>
  ELSE IF Len(d) >= 2 /\ d[1] = CR /\ d[2] = LF
       THEN <<LF>> \o ReplaceCRLF(SubSeq(d, 3, Len(d)))
       ELSE <<d[1]>> \o ReplaceCRLF(Tail(d))

\* s.replace(/\x0d/g, '\n')
ReplaceCR(d) == [i \in 1..Len(d) |-> IF d[i] = CR THEN LF ELSE d[i]]

\* s.replace(/^\n+/, '')
RECURSIVE StripLeadingLF(_)
StripLeadingLF(d) ==
  IF d # <<>> /\ d[1] = LF THEN StripLeadingLF(Tail(d)) ELSE d

\* s.replace(/\n+$/, '')
RECURSIVE StripTrailingLF(_)
StripTrailingLF(d) ==
  IF d # <<>> /\ d[Len(d)] = LF THEN StripTrailingLF(SubSeq(d, 1, Len(d) - 1)) ELSE d

_trimFirstLastLineBreaks(data) ==
  StripTrailingLF(StripLeadingLF(ReplaceCR(ReplaceCRLF(data))))

\* pat occurs in str at position i
OccursAt(str, i, pat) ==
  /\ i >= 1
  /\ i + Len(pat) - 1 <= Len(str)
  /\ SubSeq(str, i, i + Len(pat) - 1) = pat

\* position i is matched by (^|\n)
LineStart(str, i) == i = 1 \/ (i > 1 /\ str[i - 1] = LF)

\* pat occurs somewhere in str
Contains(str, pat) == \E i \in 1..Len(str) : OccursAt(str, i, pat)

\* /(^|\n)pat/.test(str)
AtLineStart(str, pat) ==
  \E i \in 1..Len(str) : (i = 1 \/ str[i - 1] = LF) /\ OccursAt(str, i, pat)

\* the test without its (^|\n) anchors: /(OK|ERROR)/.test(str) || /\> /.test(str)
IsTerminated_Unanchored(str) ==
  Contains(str, StrOK) \/ Contains(str, StrERROR) \/ Contains(str, StrPrompt)

\* /(^|\n)(OK|ERROR)/.test(str) || /(^|\n)\> /.test(str)
IsTerminated(str) ==
  \E i \in 1..Len(str) :
    /\ LineStart(str, i)
    /\ \/ OccursAt(str, i, StrOK)
       \/ OccursAt(str, i, StrERROR)
       \/ OccursAt(str, i, StrPrompt)

\* /^\+[A-Z0-9]{3,}\:/.test(data)
IsNotification(data) ==
  /\ Len(data) >= 5
  /\ data[1] = "+"
  /\ \E n \in 3..(Len(data) - 2) :
       /\ \A j \in 2..(n + 1) : data[j] \in UpperOrDigit
       /\ data[n + 2] = ":"

\* /^\+CMTI\:/.test(data)
IsCMTI(data) == OccursAt(data, 1, StrCMTI)

\* data.replace(/^\+CMTI\:\s*/, '')
RECURSIVE StripLeadingSpace(_)
StripLeadingSpace(d) ==
  IF d # <<>> /\ d[1] \in WhiteSpace THEN StripLeadingSpace(Tail(d)) ELSE d

StripCMTIPrefix(data) ==
  IF IsCMTI(data) THEN StripLeadingSpace(SubSeq(data, Len(StrCMTI) + 1, Len(data)))
  ELSE data

\* str.split(','): the list of the comma-separated parts
RECURSIVE SplitComma(_)
SplitComma(str) ==
  IF \E i \in 1..Len(str) : str[i] = ","
  THEN LET i == CHOOSE j \in 1..Len(str) :
                  str[j] = "," /\ \A l \in 1..(j - 1) : str[l] # ","
       IN <<SubSeq(str, 1, i - 1)>> \o SplitComma(SubSeq(str, i + 1, Len(str)))
  ELSE <<str>>

DigitValue(ch) == (CHOOSE i \in 1..10 : Digits[i] = ch) - 1

IsDigit(ch) == \E i \in 1..10 : Digits[i] = ch

\* parseInt(str, 10) for unsigned input; NaN is -1
RECURSIVE ParseDigits(_, _)
ParseDigits(str, acc) ==
  IF str # <<>> /\ IsDigit(str[1])
  THEN ParseDigits(Tail(str), acc * 10 + DigitValue(str[1]))
  ELSE acc

NaN == -1

parseInt(str) ==
  LET t == StripLeadingSpace(str)
  IN IF t # <<>> /\ IsDigit(t[1]) THEN ParseDigits(t, 0) ELSE NaN

----------------------------------------------------------------------------
(* Responses and messages: the functions of SmsTransceiver *)

\* null, and the undefined entries of the arrays indexes and texts
null == [null |-> TRUE]
UndefinedIndex == -2
UndefinedText == <<"undefined">>

HexChars == {"A", "B", "C", "D", "E", "F",
             "0", "1", "2", "3", "4", "5", "6", "7", "8", "9"}

\* /^[A-F0-9]+$/.test(line)
IsHex(line) == line # <<>> /\ \A i \in 1..Len(line) : line[i] \in HexChars

\* /^\d+$/.test(str)
IsDigits(str) == str # <<>> /\ \A i \in 1..Len(str) : IsDigit(str[i])

\* str.split(/\n+/)
RECURSIVE SplitLines(_)
SplitLines(str) ==
  IF \E i \in 1..Len(str) : str[i] = LF
  THEN LET i == CHOOSE j \in 1..Len(str) :
                  str[j] = LF /\ \A l \in 1..(j - 1) : str[l] # LF
       IN <<SubSeq(str, 1, i - 1)>>
            \o SplitLines(StripLeadingLF(SubSeq(str, i + 1, Len(str))))
  ELSE <<str>>

\* data.replace(/\n+OK$/, '')
_trimLastOkLine(data) ==
  LET n == Len(data)
  IN IF n >= 3 /\ SubSeq(data, n - 1, n) = StrOK /\ data[n - 2] = LF
     THEN StripTrailingLF(SubSeq(data, 1, n - 2))
     ELSE data

\* the loop of _parseCsvResponseLine over the characters of the line
RECURSIVE CsvColumns(_, _, _, _)
CsvColumns(chars, cols, col, is_in_quoted_col) ==
  IF chars = <<>>
  THEN IF col # <<>> THEN Append(cols, col) ELSE cols
  ELSE LET char == Head(chars)
       IN IF char = "," /\ ~is_in_quoted_col
          THEN CsvColumns(Tail(chars), Append(cols, col), <<>>, is_in_quoted_col)
          ELSE IF char = "\""
          THEN CsvColumns(Tail(chars), cols, col, ~is_in_quoted_col)
          ELSE CsvColumns(Tail(chars), cols, Append(col, char), is_in_quoted_col)

\* /^\+<cmd>\:/.test(line), cmd given with its '+' and ':'
HasPrefix(line, prefix) == OccursAt(line, 1, prefix)

\* _parseCsvResponseLine(cmd, line): the columns, or null
_parseCsvResponseLine(prefix, line) ==
  IF ~HasPrefix(line, prefix) THEN null
  ELSE CsvColumns(StripLeadingSpace(SubSeq(line, Len(prefix) + 1, Len(line))),
                  <<>>, <<>>, FALSE)

StrCMGR == <<"+", "C", "M", "G", "R", ":">>
StrCMGL == <<"+", "C", "M", "G", "L", ":">>
StrCMGW == <<"+", "C", "M", "G", "W", ":">>

\* SmsPdu.parse(hex) of node-sms-pdu.  The PDUs of the model are written
\* "A" text (a message of its own) or "C" reference sequence total text (a
\* part of a concatenated message), all from one sender.
Sender == "+8190000000000"

SmsPdu_parse(hex) ==
  IF Len(hex) >= 4 /\ hex[1] = "C" /\ IsDigits(SubSeq(hex, 2, 4))
  THEN [type |-> "SMS-DELIVER", origination |-> Sender, timestamp |-> "date",
        concat |-> [reference |-> DigitValue(hex[2]),
                    sequence |-> DigitValue(hex[3]),
                    total |-> DigitValue(hex[4])],
        text |-> SubSeq(hex, 5, Len(hex))]
  ELSE [type |-> "SMS-DELIVER", origination |-> Sender, timestamp |-> "date",
        concat |-> null, text |-> Tail(hex)]

\* the message object _readMessage and _parseMessageList build from a PDU
Message(index, stat, pdu) ==
  [index |-> index, stat |-> stat, type |-> pdu.type,
   from |-> IF pdu.type = "SMS-DELIVER" THEN pdu.origination ELSE "",
   to |-> IF pdu.type = "SMS-SUBMIT" THEN pdu.destination ELSE "",
   date |-> IF pdu.type = "SMS-DELIVER" THEN pdu.timestamp ELSE "",
   concat |-> pdu.concat, text |-> pdu.text]

\* _readMessage(index) after its await: cmgr_res is the response to AT+CMGR.
\* The result is a message, null, or an error thrown.
Thrown == [thrown |-> TRUE]

_readMessage_parse(index, cmgr_res) ==
  IF ~AtLineStart(cmgr_res, StrOK) THEN Thrown
  ELSE LET lines == SplitLines(_trimLastOkLine(cmgr_res))
       IN IF ~HasPrefix(lines[1], StrCMGR) \/ Len(lines) < 2 \/ ~IsHex(lines[2])
          THEN null
          ELSE LET rows == _parseCsvResponseLine(StrCMGR, lines[1])
               IN Message(index, IF rows = <<>> THEN NaN ELSE parseInt(rows[1]),
                          SmsPdu_parse(lines[2]))

\* [msg.type, msg.from || msg.to, msg.concat.reference, msg.concat.total].join('-')
Key(msg) ==
  <<msg.type, IF msg.from # "" THEN msg.from ELSE msg.to,
    msg.concat.reference, msg.concat.total>>

\* the entry made for a key seen for the first time
NewBucket(msg) ==
  [key |-> Key(msg),
   indexes |-> [i \in 1..msg.concat.total |-> UndefinedIndex],
   texts |-> [i \in 1..msg.concat.total |-> UndefinedText],
   message |-> msg, total |-> msg.concat.total, num |-> 0]

\* the value put at the first undefined entry, in the order of arrival
SetAt_Arrival(array, position, value, undefined) ==
  IF \A i \in 1..Len(array) : array[i] # undefined THEN Append(array, value)
  ELSE LET first == CHOOSE i \in 1..Len(array) :
                      array[i] = undefined /\ \A j \in 1..(i - 1) : array[j] # undefined
       IN [array EXCEPT ![first] = value]

\* array[idx] = value for idx = position - 1: a position beyond the length
\* extends the array with undefined entries, position 0 leaves the entries
\* as they are
SetAt(array, position, value, undefined) ==
  IF position < 1 THEN array
  ELSE [i \in 1..(IF position > Len(array) THEN position ELSE Len(array)) |->
          IF i = position THEN value
          ELSE IF i <= Len(array) THEN array[i] ELSE undefined]

\* cmsg.indexes[idx] = msg.index; cmsg.texts[idx] = msg.text; cmsg.num++
PutFragment(cmsg, msg) ==
  [cmsg EXCEPT !.indexes = SetAt(@, msg.concat.sequence, msg.index, UndefinedIndex),
               !.texts = SetAt(@, msg.concat.sequence, msg.text, UndefinedText),
               !.num = @ + 1]

\* texts.join(''): an undefined entry joins as the empty string
RECURSIVE Join(_)
Join(texts) ==
  IF texts = <<>> THEN <<>>
  ELSE (IF Head(texts) = UndefinedText THEN <<>> ELSE Head(texts)) \o Join(Tail(texts))

\* message.concat.indexes = indexes without the delete
Resolved_KeepSequence(concat, indexes) ==
  [reference |-> concat.reference, sequence |-> concat.sequence,
   total |-> concat.total, indexes |-> indexes]

\* message.concat after: delete message.concat.sequence;
\* message.concat.indexes = indexes
Resolved(concat, indexes) ==
  [reference |-> concat.reference, total |-> concat.total, indexes |-> indexes]

\* the message of the first fragment with its own text
Completed_Unmerged(cmsg) ==
  [cmsg.message EXCEPT !.concat = Resolved(@, cmsg.indexes)]

\* the message of a bucket that has received total fragments
Completed(cmsg) ==
  [cmsg.message EXCEPT !.text = Join(cmsg.texts),
                       !.concat = Resolved(@, cmsg.indexes)]

WithKey(entries, key) == {i \in 1..Len(entries) : entries[i].key = key}

Without(entries, i) == SubSeq(entries, 1, i - 1) \o SubSeq(entries, i + 1, Len(entries))

\* the list as it was parsed
SortByIndex_AsListed(message_list) == message_list

\* message_list.sort((a, b) => (a.index > b.index) ? 1 : -1)
RECURSIVE SortByIndex(_)
SortByIndex(message_list) ==
  IF message_list = <<>> THEN <<>>
  ELSE LET first == CHOOSE i \in 1..Len(message_list) :
                      \A j \in 1..Len(message_list) :
                        \/ message_list[i].index < message_list[j].index
                        \/ (message_list[i].index = message_list[j].index /\ i <= j)
       IN <<message_list[first]>>
            \o SortByIndex(SubSeq(message_list, 1, first - 1)
                              \o SubSeq(message_list, first + 1, Len(message_list)))

\* one turn of the first loop of _mergeMessageList; an entry of concat_msg_map
\* refers to its message by the position pos in merged_list
MergeOne(acc, msg) ==
  IF msg.concat = null
  THEN [acc EXCEPT !.merged_list = Append(@, msg)]
  ELSE LET isnew == \A i \in 1..Len(acc.concat_msg_map) :
                      acc.concat_msg_map[i].cmsg.key # Key(msg)
           map == IF isnew
                  THEN Append(acc.concat_msg_map,
                              [cmsg |-> NewBucket(msg), pos |-> Len(acc.merged_list) + 1])
                  ELSE acc.concat_msg_map
           list == IF isnew THEN Append(acc.merged_list, msg) ELSE acc.merged_list
           i == CHOOSE j \in 1..Len(map) : map[j].cmsg.key = Key(msg)
           cmsg == PutFragment(map[i].cmsg, msg)
       IN IF cmsg.num = cmsg.total
          THEN [merged_list |-> [list EXCEPT ![map[i].pos] = Completed(cmsg)],
                concat_msg_map |-> Without(map, i)]
          ELSE [merged_list |-> list,
                concat_msg_map |-> [map EXCEPT ![i].cmsg = cmsg]]

RECURSIVE MergeAll(_, _)
MergeAll(acc, message_list) ==
  IF message_list = <<>> THEN acc
  ELSE MergeAll(MergeOne(acc, Head(message_list)), Tail(message_list))

StrUnknown == <<"[", "?", "]">>

\* merged_text of the second loop: an undefined text becomes '[?]'
RECURSIVE JoinKnown(_)
JoinKnown(texts) ==
  IF texts = <<>> THEN <<>>
  ELSE (IF Head(texts) = UndefinedText THEN StrUnknown ELSE Head(texts))
         \o JoinKnown(Tail(texts))

\* the second loop of _mergeMessageList: the entries left in concat_msg_map
RECURSIVE Flush(_, _)
Flush(merged_list, concat_msg_map) ==
  IF concat_msg_map = <<>> THEN merged_list
  ELSE LET e == Head(concat_msg_map)
       IN Flush([merged_list EXCEPT ![e.pos] =
                   [e.cmsg.message EXCEPT !.text = JoinKnown(e.cmsg.texts),
                                          !.concat = Resolved(@, e.cmsg.indexes)]],
                Tail(concat_msg_map))

_mergeMessageList(message_list) ==
  LET acc == MergeAll([merged_list |-> <<>>, concat_msg_map |-> <<>>], message_list)
  IN Flush(acc.merged_list, acc.concat_msg_map)

\* current_message after the PDU of a hex line is copied into it: a field the
\* line does not set keeps the value it had
WithPdu(message, pdu) ==
  [message EXCEPT !.type = pdu.type,
                  !.from = IF pdu.type = "SMS-DELIVER" THEN pdu.origination ELSE @,
                  !.date = IF pdu.type = "SMS-DELIVER" THEN pdu.timestamp ELSE @,
                  !.to = IF pdu.type = "SMS-SUBMIT" THEN pdu.destination ELSE @,
                  !.concat = IF pdu.concat # null THEN pdu.concat ELSE @,
                  !.text = pdu.text]

\* the loop of _parseMessageList over the lines of the response.
\* current_message is one object: pushed holds the places of message_list
\* that refer to it, and all of them show what a later hex line writes to it
RECURSIVE ParseLines(_, _)
ParseLines(line_list, st) ==
  IF line_list = <<>> THEN st
  ELSE LET line == Head(line_list)
           rows == _parseCsvResponseLine(StrCMGL, line)
       IN ParseLines(Tail(line_list),
            IF HasPrefix(line, StrCMGL)
            THEN IF Len(rows) < 2 THEN st
                 ELSE [st EXCEPT !.current_message =
                                   [index |-> parseInt(rows[1]),
                                    stat |-> parseInt(rows[2]),
                                    pushed |-> {}]]
            ELSE IF st.current_message # null /\ IsHex(line)
            THEN LET pdu == SmsPdu_parse(line)
                     cur == st.current_message
                     message ==
                       IF cur.pushed = {}
                       THEN Message(cur.index, cur.stat, pdu)
                       ELSE WithPdu(st.message_list[CHOOSE i \in cur.pushed : TRUE], pdu)
                 IN [st EXCEPT !.message_list =
                                 Append([i \in 1..Len(@) |->
                                           IF i \in cur.pushed THEN message ELSE @[i]],
                                        message),
                               !.current_message.pushed = @ \cup {Len(st.message_list) + 1},
                               !.concat_num = @ + (IF pdu.concat # null THEN 1 ELSE 0)]
            ELSE [st EXCEPT !.current_message = null])

\* _parseMessageList(cmgl), with this._concat
_parseMessageList(cmgl, concat) ==
  LET st == ParseLines(SplitLines(cmgl),
                       [message_list |-> <<>>, current_message |-> null, concat_num |-> 0])
      message_list == SortByIndex(st.message_list)
  IN IF concat = TRUE /\ st.concat_num > 0
     THEN _mergeMessageList(message_list)
     ELSE message_list

----------------------------------------------------------------------------
(* State *)

VARIABLES
  port_state,        \* SerialPort: "closed", "opening", "open" or "closing"
  port_once_open,    \* listeners added by this._port.once('open', ...)
  port_once_close,   \* listeners added by this._port.once('close', ...)
  port_on_data,      \* listeners added by this._port.on('data', ...)
  _response_waiting, \* SmsModem._response_waiting
  _onresponse,       \* SmsModem._onresponse: the closure it refers to, or NoId
  _response_data,    \* SmsModem._response_data
  closures,          \* execCommand closures still referred to, oldest first: command,
                     \* awaiting caller, timer armed, callback of port.write due
                     \* (and an observation: called in the turn after a timeout)
  modem_once_open,   \* listeners added by this._modem.once('serial-open', ...)
  modem_once_close,  \* listeners added by this._modem.once('serial-close', ...)
  modem_on,          \* sets of on(...) listeners added by SmsTransceiver.open
  microtasks,        \* promise reactions queued, oldest first
  act,               \* observation: the turn that was taken last, and its chunk
  calls,             \* observation: execCommand calls made in the last turn
  settled,           \* observation: promises settled in the last turn
  modem_stored,      \* the modem: the storage indexes whose message it has announced
  _concat,           \* SmsTransceiver._concat
  _event_concat_messages, \* SmsTransceiver._event_concat_messages: its entries
  emitted,           \* observation: events SmsTransceiver emitted in the last turn
  initialized,       \* observation: all of cmd_list was answered since the port opened
  inbox,             \* the modem: the PDUs it lists for AT+CMGL, in the order listed
  listed,            \* observation: what the last call of listMessages returned
  locals             \* sendMessage or writeSubmitMessage, the call that ran last: its
                     \* pdu_list and index_list (and observations: whether it still
                     \* runs, the commands it has issued and after which response)

vars == <<port_state, port_once_open, port_once_close, port_on_data,
          _response_waiting, _onresponse, _response_data, closures,
          modem_once_open, modem_once_close, modem_on, microtasks,
          modem_stored, _concat, _event_concat_messages,
          act, calls, settled, emitted, initialized, inbox, listed,
          locals>>

\* this._onresponse === null
NoId == 0

\* who awaits the promise of an execCommand call
NoOwner == [kind |-> "none", k |-> 0]
User == [kind |-> "user", k |-> 0]
InitStep(k) == [kind |-> "init", k |-> k]
LiveRead(index) == [kind |-> "live", k |-> index]
\* the k-th await of sendMessage or of writeSubmitMessage
SendStep(k) == [kind |-> "send", k |-> k]
WriteStep(k) == [kind |-> "write", k |-> k]
\* the await of getSignalQuality, the k-th await of setMessageStorage
CsqStep == [kind |-> "csq", k |-> 1]
CpmsStep(k) == [kind |-> "cpms", k |-> k]
\* the k-th await of readMessage, deleteMessage or sendStoredMessage
StoredStep(k) == [kind |-> "stored", k |-> k]

\* no call of sendMessage or writeSubmitMessage was made yet
NoCall == [op |-> "none", running |-> FALSE, pdu_list |-> <<>>, index_list |-> <<>>,
           log |-> <<>>]

\* default terminator of execCommand
TerminatorCR == 13

\* terminator: 0x1A, "Ctrl+z"
TerminatorCtrlZ == 26

\* the program state as one value, threaded through the operations below
State ==
  [port_state |-> port_state, port_once_open |-> port_once_open,
   port_once_close |-> port_once_close, port_on_data |-> port_on_data,
   _response_waiting |-> _response_waiting,
   _onresponse |-> _onresponse, _response_data |-> _response_data,
   closures |-> closures, modem_once_open |-> modem_once_open,
   modem_once_close |-> modem_once_close, modem_on |-> modem_on,
   microtasks |-> microtasks, modem_stored |-> modem_stored, _concat |-> _concat,
   _event_concat_messages |-> _event_concat_messages, act |-> act, calls |-> calls,
   settled |-> settled, emitted |-> emitted, initialized |-> initialized,
   inbox |-> inbox, listed |-> listed, locals |-> locals,
   before |-> act.name]

\* a closure is referred to while its timer is armed, the callback of its
\* port.write is due, or it is this._onresponse
Alive(s, id) ==
  \/ s.closures[id].timer
  \/ s.closures[id].writing
  \/ s._onresponse = id

\* the closures whose port.write callback is due: port.write completes in order
Writing(s) == {id \in 1..Len(s.closures) : s.closures[id].writing}

OldestWrite(s) == CHOOSE id \in Writing(s) : \A other \in Writing(s) : id <= other

\* closures nothing refers to any more are forgotten
RECURSIVE Keep(_, _)
Keep(s, id) ==
  IF id > Len(s.closures) THEN <<>>
  ELSE (IF Alive(s, id) THEN <<s.closures[id]>> ELSE <<>>) \o Keep(s, id + 1)

Collect(s) ==
  [s EXCEPT !.closures = Keep(s, 1),
            !._onresponse =
              IF s._onresponse = NoId THEN NoId
              ELSE Cardinality({id \in 1..s._onresponse : Alive(s, id)})]

\* the next state is s
Becomes(s) ==
  LET c == Collect(s)
  IN /\ port_state' = c.port_state
     /\ port_once_open' = c.port_once_open
     /\ port_once_close' = c.port_once_close
     /\ port_on_data' = c.port_on_data
     /\ _response_waiting' = c._response_waiting
     /\ _onresponse' = c._onresponse
     /\ _response_data' = c._response_data
     /\ closures' = c.closures
     /\ modem_once_open' = c.modem_once_open
     /\ modem_once_close' = c.modem_once_close
     /\ modem_on' = c.modem_on
     /\ microtasks' = c.microtasks
     /\ modem_stored' = c.modem_stored
     /\ _concat' = c._concat
     /\ _event_concat_messages' = c._event_concat_messages
     /\ act' = c.act
     /\ calls' = c.calls
     /\ settled' = c.settled
     /\ emitted' = c.emitted
     /\ initialized' = c.initialized
     /\ inbox' = c.inbox
     /\ listed' = c.listed
     /\ locals' = c.locals

\* the state at the start of a turn: the observations of the last turn are dropped
Turn(name, buf) ==
  [State EXCEPT !.act = [name |-> name, buf |-> buf],
                !.calls = <<>>, !.settled = <<>>, !.emitted = <<>>]

----------------------------------------------------------------------------
(* Events and promises *)

Event(name, arg) == [name |-> name, arg |-> arg]

\* SmsTransceiver.emit(name, arg), n times
RECURSIVE EmitN(_, _, _)
EmitN(s, n, ev) ==
  IF n = 0 THEN s ELSE EmitN([s EXCEPT !.emitted = Append(@, ev)], n - 1, ev)

\* an event of SmsModem that SmsTransceiver.open forwards: once per registered listener
Forward(s, name, arg) == EmitN(s, s.modem_on, Event(name, arg))

\* a promise is settled; the reaction of an awaiting async function is queued
Settle(s, op, cmd, owner, outcome, text) ==
  LET rec == [op |-> op, cmd |-> cmd, owner |-> owner,
              outcome |-> outcome, text |-> text]
      s1 == [s EXCEPT !.settled = Append(@, rec)]
  IN IF owner.kind \in {"init", "live", "send", "write", "csq", "cpms", "stored"}
     THEN [s1 EXCEPT !.microtasks = Append(@, [owner |-> owner, outcome |-> outcome,
                                                text |-> text])]
     ELSE s1

----------------------------------------------------------------------------
(* SmsModem *)

\* a command takes the slot: timer, this._onresponse, this._write
Admit(s, cmd, terminator, owner) ==
  [s EXCEPT !._response_waiting = TRUE,
            !.closures = Append(@, [cmd |-> cmd, owner |-> owner, timer |-> TRUE,
                                    writing |-> TRUE, cr |-> terminator,
                                    after_timeout |-> s.before = "timeout"]),
            !._onresponse = Len(s.closures) + 1,
            !.calls = Append(@, [cmd |-> cmd, owner |-> owner,
                                 outcome |-> "admitted"])]

\* execCommand without the check of this._port.isOpen
execCommand_NoPortCheck(s, cmd, terminator, owner) ==
  IF s._response_waiting = TRUE
  THEN Settle([s EXCEPT !.calls = Append(@, [cmd |-> cmd, owner |-> owner,
                                              outcome |-> "busy"])],
              "execCommand", cmd, owner, "busy", <<>>)
  ELSE Admit(s, cmd, terminator, owner)

\* execCommand(cmd, options): the executor of the returned promise
execCommand(s, cmd, terminator, owner) ==
  IF s.port_state # "open"
  THEN Settle([s EXCEPT !.calls = Append(@, [cmd |-> cmd, owner |-> owner,
                                              outcome |-> "closed"])],
              "execCommand", cmd, owner, "closed", <<>>)
  ELSE IF s._response_waiting = TRUE
  THEN Settle([s EXCEPT !.calls = Append(@, [cmd |-> cmd, owner |-> owner,
                                              outcome |-> "busy"])],
              "execCommand", cmd, owner, "busy", <<>>)
  ELSE Admit(s, cmd, terminator, owner)

\* the timer callback of the closure id
TimerFired(s, id) ==
  LET c == s.closures[id]
      s1 == [s EXCEPT !.closures[id].timer = FALSE,
                      !._response_waiting = FALSE,
                      !._onresponse = NoId]
  IN Settle(s1, "execCommand", c.cmd, c.owner, "TIMEOUT", <<>>)

\* this._onresponse without clearTimeout(timer) and timer = null: the timer
\* stays armed after the response
OnResponse_KeepsTimer(s, id, res) ==
  LET c == s.closures[id]
      s1 == [s EXCEPT !._onresponse = NoId, !._response_waiting = FALSE]
  IN IF c.timer
     THEN Settle(s1, "execCommand", c.cmd, c.owner, "resolved", res)
     ELSE s1

\* this._onresponse of the closure id, called with the response
OnResponse(s, id, res) ==
  LET c == s.closures[id]
      s1 == [s EXCEPT !._onresponse = NoId, !._response_waiting = FALSE]
  IN IF c.timer
     THEN Settle([s1 EXCEPT !.closures[id].timer = FALSE],
                 "execCommand", c.cmd, c.owner, "resolved", res)
     ELSE s1

\* the callback of port.write in _write, then the reaction of execCommand to it
WriteCallback(s, error) ==
  LET id == OldestWrite(s)
      c == s.closures[id]
      s1 == [s EXCEPT !.closures[id].writing = FALSE]
  IN IF error
     THEN LET s2 == [s1 EXCEPT !.closures[id].timer = FALSE,
                               !._onresponse = NoId,
                               !._response_waiting = FALSE]
          IN IF c.timer
             THEN Settle(s2, "execCommand", c.cmd, c.owner, "write-error", <<>>)
             ELSE s2
     ELSE Forward(s1, "at-command", <<c.cmd>>)

_handleResponse(s, res) ==
  LET s1 == Forward(s, "at-response", res)
  IN IF s1._onresponse # NoId THEN OnResponse(s1, s1._onresponse, res) ELSE s1

\* SmsTransceiver._readMessage(index) up to its first await
_readMessage(s, index, owner) ==
  IF index < 0
  THEN s
  ELSE execCommand(s, "AT+CMGR=" \o ToString(index), TerminatorCR, owner)

\* SmsTransceiver._handleSmsMessageEvent(notification) up to its first await
_handleSmsMessageEvent(s, index) == _readMessage(s, index, LiveRead(index))

\* this.emit('sms-message', ...) of SmsModem: the listeners run one after another
RECURSIVE EmitSmsMessage(_, _, _)
EmitSmsMessage(s, n, index) ==
  IF n = 0 THEN s ELSE EmitSmsMessage(_handleSmsMessageEvent(s, index), n - 1, index)

\* memr.replace(/^\"/, '').replace(/\"$/, '')
StripQuotes(memr) ==
  LET m == IF memr # <<>> /\ Head(memr) = "\"" THEN Tail(memr) ELSE memr
  IN IF m # <<>> /\ m[Len(m)] = "\"" THEN SubSeq(m, 1, Len(m) - 1) ELSE m

\* the event 'sms-message' of SmsModem, as SmsTransceiver receives it
Notified(memr, index) == Event("SmsModem.sms-message", [memr |-> memr, index |-> index])

_receivedNotification(s, data) ==
  LET s1 == Forward(s, "at-notification", data)
      parts == SplitComma(StripCMTIPrefix(data))
  IN IF IsCMTI(data) /\ Len(parts) >= 2 /\ parts[1] # <<>> /\ parts[2] # <<>>
     THEN EmitSmsMessage(EmitN(s1, s1.modem_on,
                               Notified(StripQuotes(parts[1]), parseInt(parts[2]))),
                         s1.modem_on, parseInt(parts[2]))
     ELSE s1

_handleReceivedData(s, buf) ==
  LET s1 == Forward(s, "serial-data", buf)
      data == _trimFirstLastLineBreaks(buf)
  IN IF s1._response_waiting
     THEN LET s2 == [s1 EXCEPT !._response_data = @ \o data]
          IN IF IsTerminated(s2._response_data)
             THEN [_handleResponse(s2, s2._response_data) EXCEPT !._response_data = <<>>]
             ELSE s2
     ELSE LET s2 == [s1 EXCEPT !._response_data = <<>>]
          IN IF IsNotification(data) THEN _receivedNotification(s2, data) ELSE s2

\* the 'data' event of the port: every listener added by open() handles the chunk
RECURSIVE PortData(_, _, _)
PortData(s, n, buf) ==
  IF n = 0 THEN s ELSE PortData(_handleReceivedData(s, buf), n - 1, buf)

\* SmsModem.open(): the executor of the returned promise
SmsModem_open(s, owner) ==
  IF s.port_state = "open"
  THEN Settle(s, "modem.open", "", owner, "resolved", <<>>)
  ELSE LET s1 == [s EXCEPT !.port_once_open = @ + 1,
                           !.port_once_close = @ + 1,
                           !.port_on_data = @ + 1]
       IN IF s1.port_state = "opening"
          THEN Settle(s1, "modem.open", "", owner, "open-error", <<>>)
          ELSE [s1 EXCEPT !.port_state = "opening"]

\* SmsModem.close(): the executor of the returned promise
SmsModem_close(s) ==
  IF s.port_state # "open"
  THEN Settle(s, "close", "", User, "resolved", <<>>)
  ELSE [s EXCEPT !.port_state = "closing"]

----------------------------------------------------------------------------
(* SmsTransceiver *)

cmd_list == <<"ATE0", "ATQ0", "ATV1", "ATS0=0", "AT+CNMI=2,1,0,0,0", "AT+CMGF=0">>

\* SmsTransceiver.open() up to its first await
SmsTransceiver_open(s) ==
  IF s.port_state = "open"
  THEN Settle(s, "open", "", User, "resolved", <<>>)
  ELSE SmsModem_open([s EXCEPT !.modem_once_open = @ + 1,
                               !.modem_once_close = @ + 1,
                               !.modem_on = @ + 1],
                     InitStep(0))

\* SmsTransceiver.open() resumed: this._modem.open() (k = 0) or the k-th
\* command of cmd_list has settled
SmsTransceiver_open_resume(s, job) ==
  IF job.outcome # "resolved"
  THEN Settle(s, "open", "", User, job.outcome, job.text)
  ELSE LET s1 == [s EXCEPT !.initialized = (@ \/ job.owner.k = Len(cmd_list))]
       IN IF job.owner.k < Len(cmd_list)
          THEN execCommand(s1, cmd_list[job.owner.k + 1], TerminatorCR,
                           InitStep(job.owner.k + 1))
          ELSE Settle(s1, "open", "", User, "resolved", <<>>)

\* the entries of this._event_concat_messages with the key
\* _handleSmsMessageEvent for a part of a concatenated message
StorePart(s, msg) ==
  LET known == s._event_concat_messages
      entries == IF WithKey(known, Key(msg)) = {} THEN Append(known, NewBucket(msg))
                 ELSE known
      i == CHOOSE j \in WithKey(entries, Key(msg)) : TRUE
      cmsg == PutFragment(entries[i], msg)
  IN IF cmsg.num = cmsg.total
     THEN [EmitN(s, 1, Event("sms-message", Completed(cmsg)))
             EXCEPT !._event_concat_messages = Without(entries, i)]
     ELSE [s EXCEPT !._event_concat_messages = [entries EXCEPT ![i] = cmsg]]

\* SmsTransceiver._handleSmsMessageEvent resumed: AT+CMGR has settled.  An
\* error thrown (a rejection, a response without OK, msg.concat of null) ends
\* in console.error.
_handleSmsMessageEvent_resume(s, job) ==
  IF job.outcome # "resolved" THEN s
  ELSE LET msg == _readMessage_parse(job.owner.k, job.text)
       IN IF msg = Thrown \/ msg = null THEN s
          ELSE IF msg.concat = null \/ s._concat = FALSE
          THEN EmitN(s, 1, Event("sms-message", msg))
          ELSE StorePart(s, msg)

\* SmsPdu.generateSubmit(dest, text) for a text that needs n PDUs
generateSubmit(n) ==
  [i \in 1..n |-> [length |-> 19 + i, hex |-> "0041000B81" \o ToString(i)]]

\* _generateSubmitPdus(dest, text) throws unless dest matches /^\+?\d+$/ and
\* text is not empty (it needs n > 0 PDUs)
InvalidSubmit(dest, n) ==
  ~IsDigits(IF dest # <<>> /\ Head(dest) = "+" THEN Tail(dest) ELSE dest) \/ n < 1

_generateSubmitPdus(dest, n) == IF InvalidSubmit(dest, n) THEN <<>> ELSE generateSubmit(n)

StrUnexpected ==
  <<"U", "n", "e", "x", "p", "e", "c", "t", "e", "d", " ",
    "r", "e", "s", "p", "o", "n", "s", "e", ":", " ">>

\* any response passes for the prompt
IsPrompt_Any(res) == TRUE

\* /^\>/.test(res)
IsPrompt(res) == res # <<>> /\ Head(res) = ">"

\* the async function of sendMessage or writeSubmitMessage ends
Finish(s, op, outcome, value) ==
  Settle([s EXCEPT !.locals.running = FALSE], op, "", User, outcome, value)

\* execCommand called by sendMessage or writeSubmitMessage after the response after
Issue(s, cmd, terminator, owner, after) ==
  LET s1 == execCommand(s, cmd, terminator, owner)
  IN IF Len(s1.closures) > Len(s.closures)
     THEN [s1 EXCEPT !.locals.log =
                       Append(@, [cmd |-> s1.closures[Len(s1.closures)].cmd,
                                  terminator |-> s1.closures[Len(s1.closures)].cr,
                                  after |-> after])]
     ELSE s1

\* sendMessage(dest, text) up to its first await
sendMessage(s, dest, n) ==
  LET pdu_list == _generateSubmitPdus(dest, n)
      s1 == [s EXCEPT !.locals = [op |-> "sendMessage", running |-> TRUE,
                                  pdu_list |-> pdu_list,
                                  index_list |-> <<>>, log |-> <<>>]]
  IN IF InvalidSubmit(dest, n) THEN Finish(s1, "sendMessage", "invalid", <<>>)
     ELSE Issue(s1, "AT+CMGS=" \o ToString(pdu_list[1].length), TerminatorCR,
                SendStep(1), <<>>)

\* sendMessage resumed after its k-th await: 2i-1 is AT+CMGS for the i-th PDU,
\* 2i is the PDU
sendMessage_resume(s, job) ==
  LET k == job.owner.k
      i == (k + 1) \div 2
      pdu_list == s.locals.pdu_list
  IN IF job.outcome # "resolved"
     THEN Finish(s, "sendMessage", job.outcome, job.text)
     ELSE IF k % 2 = 1
     THEN IF IsPrompt(job.text)
          THEN Issue(s, pdu_list[i].hex, TerminatorCtrlZ, SendStep(k + 1), job.text)
          ELSE Finish(s, "sendMessage", "rejected", StrUnexpected \o job.text)
     ELSE IF ~AtLineStart(job.text, StrOK)
          THEN Finish(s, "sendMessage", "rejected", StrUnexpected \o job.text)
          ELSE IF i < Len(pdu_list)
          THEN Issue(s, "AT+CMGS=" \o ToString(pdu_list[i + 1].length), TerminatorCR,
                     SendStep(k + 1), job.text)
          ELSE Finish(s, "sendMessage", "resolved", <<>>)

\* writeSubmitMessage(dest, text) up to its first await
writeSubmitMessage(s, dest, n) ==
  LET pdu_list == _generateSubmitPdus(dest, n)
      s1 == [s EXCEPT !.locals = [op |-> "writeSubmitMessage", running |-> TRUE,
                                  pdu_list |-> pdu_list,
                                  index_list |-> <<>>, log |-> <<>>]]
  IN IF InvalidSubmit(dest, n) THEN Finish(s1, "writeSubmitMessage", "invalid", <<>>)
     ELSE Issue(s1, "AT+CMGW=" \o ToString(pdu_list[1].length) \o ",2", TerminatorCR,
                WriteStep(1), <<>>)

\* index_list.push(parseInt(rows[0], 10))
PushIndex_Front(index_list, rows) == <<parseInt(rows[1])>> \o index_list

PushIndex(index_list, rows) == Append(index_list, parseInt(rows[1]))

\* writeSubmitMessage resumed after its k-th await
writeSubmitMessage_resume(s, job) ==
  LET k == job.owner.k
      i == (k + 1) \div 2
      pdu_list == s.locals.pdu_list
      result == _trimLastOkLine(job.text)
      rows == _parseCsvResponseLine(StrCMGW, result)
  IN IF job.outcome # "resolved"
     THEN Finish(s, "writeSubmitMessage", job.outcome, job.text)
     ELSE IF k % 2 = 1
     THEN IF ~IsPrompt(job.text)
          THEN Finish(s, "writeSubmitMessage", "rejected", StrUnexpected \o job.text)
          ELSE Issue(s, pdu_list[i].hex, TerminatorCtrlZ, WriteStep(k + 1), job.text)
     ELSE IF ~AtLineStart(job.text, StrOK)
          THEN Finish(s, "writeSubmitMessage", "rejected", StrUnexpected \o job.text)
          ELSE IF ~HasPrefix(result, StrCMGW) \/ rows = <<>> \/ ~IsDigits(rows[1])
          THEN Finish(s, "writeSubmitMessage", "rejected", StrUnexpected \o result)
          ELSE LET s1 == [s EXCEPT !.locals.index_list = PushIndex(@, rows)]
               IN IF i < Len(pdu_list)
                  THEN Issue(s1, "AT+CMGW=" \o ToString(pdu_list[i + 1].length) \o ",2",
                             TerminatorCR, WriteStep(k + 1), job.text)
                  ELSE Finish(s1, "writeSubmitMessage", "resolved",
                              s1.locals.index_list)

\* a call of an async function of SmsTransceiver begins
Called(s, op) ==
  [s EXCEPT !.locals = [op |-> op, running |-> TRUE, pdu_list |-> <<>>,
                        index_list |-> <<>>, log |-> <<>>]]

StrCSQTag == <<"+", "C", "S", "Q", ":">>

\* a number that may be null: <<>> is null
Null == <<>>

\* the rssi of getSignalQuality for the digits of +CSQ; the third test is the
\* assignment rssi = 31, which is true
Rssi(raw) ==
  IF raw = 0 THEN <<-113>>
  ELSE IF raw >= 1 /\ raw <= 30 THEN <<-113 + (raw * 2)>>
  ELSE IF 31 # 0 THEN <<-51>>
  ELSE Null

\* getSignalQuality() up to its await
getSignalQuality(s) ==
  execCommand(Called(s, "getSignalQuality"), "AT+CSQ", TerminatorCR, CsqStep)

\* getSignalQuality() resumed: csq is the response to AT+CSQ
getSignalQuality_resume(s, job) ==
  IF job.outcome # "resolved"
  THEN Finish(s, "getSignalQuality", job.outcome, job.text)
  ELSE LET csq == _trimLastOkLine(job.text)
           cols == SplitComma(StripLeadingSpace(SubSeq(csq, Len(StrCSQTag) + 1, Len(csq))))
           rssi == cols[1]
       IN Finish(s, "getSignalQuality", "resolved",
                 IF ~HasPrefix(csq, StrCSQTag) THEN [rssi |-> Null, ber |-> Null]
                 ELSE [rssi |-> IF IsDigits(rssi) THEN Rssi(parseInt(rssi)) ELSE Null,
                       ber |-> IF Len(cols) >= 2 /\ IsDigits(cols[2])
                               THEN <<parseInt(cols[2])>> ELSE Null])

\* an argument of setMessageStorage: <<>> when it is omitted, else <<string>>
Given(arg) == arg # <<>> /\ arg[1] # ""

\* ${arg} in a template literal
Interpolated(arg) == IF arg = <<>> THEN "undefined" ELSE arg[1]

StrCPMS == <<"C", "P", "M", "S">>

\* setMessageStorage(memr, memw, mems) up to its first await
setMessageStorage(s, memr, memw, mems) ==
  LET params == <<memr, IF Given(memw) THEN memw ELSE memr,
                        IF Given(mems) THEN mems ELSE memr>>
      s1 == Called(s, "setMessageStorage")
  IN IF ~Given(memr) THEN Finish(s1, "setMessageStorage", "invalid", <<>>)
     ELSE IF \E i \in 1..3 : params[i][1] \notin {"SM", "ME"}
     THEN Finish(s1, "setMessageStorage", "invalid", <<>>)
     ELSE execCommand(s1, "AT+CPMS=\"" \o Interpolated(memr) \o "\",\""
                            \o Interpolated(memw) \o "\",\"" \o Interpolated(mems) \o "\"",
                      TerminatorCR, CpmsStep(1))

\* setMessageStorage resumed after AT+CPMS=..., and getMessageStorage, which it
\* calls, resumed after AT+CPMS?
setMessageStorage_resume(s, job) ==
  LET cpms_res == _trimLastOkLine(job.text)
      tag == <<"+">> \o StrCPMS \o <<":">>
      rows == _parseCsvResponseLine(tag, cpms_res)
  IN IF job.outcome # "resolved"
     THEN Finish(s, "setMessageStorage", job.outcome, job.text)
     ELSE IF job.owner.k = 1
     THEN IF ~Contains(job.text, <<LF>> \o StrOK)
          THEN Finish(s, "setMessageStorage", "rejected", StrUnexpected \o job.text)
          ELSE execCommand(s, "AT+CPMS?", TerminatorCR, CpmsStep(2))
     ELSE IF ~HasPrefix(cpms_res, tag) \/ Len(rows) < 9
          THEN Finish(s, "setMessageStorage", "rejected", StrUnexpected \o cpms_res)
          ELSE Finish(s, "setMessageStorage", "resolved",
                      [k \in {"r", "w", "s"} |->
                         LET i == CHOOSE n \in 0..2 : <<"r", "w", "s">>[n + 1] = k
                         IN [mem |-> rows[i * 3 + 1],
                             used |-> parseInt(rows[i * 3 + 2]),
                             total |-> parseInt(rows[i * 3 + 3])]])

\* readMessage(index), deleteMessage(index) or sendStoredMessage(index) begins
CalledFor(s, op, index) ==
  [s EXCEPT !.locals = [op |-> op, running |-> TRUE, pdu_list |-> <<>>,
                        index_list |-> <<>>, log |-> <<>>,
                        index |-> index, msg |-> null]]

\* TypeError of undefined.toString(), ReferenceError of the variable cmgr
StrTypeError == <<"TypeError">>
StrReferenceError == <<"ReferenceError">>
StrNotFound == <<"The index was not found.">>

\* for (let message of message_list) if (message.index === index) ...
TargetMessage(message_list, index) ==
  IF \E i \in 1..Len(message_list) : message_list[i].index = index
  THEN message_list[CHOOSE i \in 1..Len(message_list) :
                      /\ message_list[i].index = index
                      /\ \A j \in 1..(i - 1) : message_list[j].index # index]
  ELSE null

\* for (let idx of index_list) { execCommand(prefix + idx.toString()) ... }:
\* the next turn of the loop of deleteMessage or sendStoredMessage
NextIndex(s, prefix, after) ==
  LET op == s.locals.op
      index_list == s.locals.index_list
  IN IF index_list = <<>>
     THEN Finish(s, op, "resolved", IF op = "deleteMessage" THEN s.locals.msg ELSE <<>>)
     ELSE IF Head(index_list) = UndefinedIndex
     THEN Finish(s, op, "rejected", StrTypeError)
     ELSE Issue([s EXCEPT !.locals.index_list = Tail(@)],
                prefix \o ToString(Head(index_list)), TerminatorCR, StoredStep(5), after)

\* readMessage(index) has settled in deleteMessage or sendStoredMessage, or
\* settles for the application
readMessage_settled(s, outcome, value, after) ==
  LET op == s.locals.op
      index == s.locals.index
  IN IF op = "readMessage" \/ outcome # "resolved" THEN Finish(s, op, outcome, value)
     ELSE IF op = "deleteMessage"
     THEN IF value = null THEN Finish(s, op, "resolved", null)
          ELSE IF value.concat = null \/ s._concat = FALSE
          THEN Issue([s EXCEPT !.locals.msg = value],
                     "AT+CMGD=" \o ToString(index), TerminatorCR, StoredStep(3), after)
          ELSE Issue(s, "AT+CMGL=4", TerminatorCR, StoredStep(4), after)
     ELSE IF value = null THEN Finish(s, op, "rejected", StrNotFound)
          ELSE NextIndex([s EXCEPT !.locals.msg = value,
                                   !.locals.index_list =
                                     IF value.concat # null /\ s._concat = TRUE
                                     THEN value.concat.indexes ELSE <<index>>],
                         "AT+CMSS=", after)

\* readMessage, deleteMessage and sendStoredMessage up to the first await: all
\* three reach _readMessage(index), which checks the index
stored_call(s, op, index) ==
  IF index < 0 THEN Finish(CalledFor(s, op, index), op, "invalid", <<>>)
  ELSE Issue(CalledFor(s, op, index), "AT+CMGR=" \o ToString(index), TerminatorCR,
             StoredStep(1), <<>>)

\* readMessage, deleteMessage or sendStoredMessage resumed after the k-th
\* await: 1 AT+CMGR of _readMessage, 2 AT+CMGL of readMessage, 3 AT+CMGD of a
\* message of its own, 4 AT+CMGL of deleteMessage, 5 AT+CMGD or AT+CMSS of
\* an index of a concatenated message
stored_resume(s, job) ==
  LET k == job.owner.k
      op == s.locals.op
      index == s.locals.index
      ok == AtLineStart(job.text, StrOK)
      msg == _readMessage_parse(index, job.text)
      target_message == TargetMessage(_parseMessageList(job.text, s._concat), index)
  IN IF job.outcome # "resolved" THEN Finish(s, op, job.outcome, job.text)
     ELSE IF k = 1
     THEN IF msg = Thrown
          THEN readMessage_settled(s, "rejected", StrUnexpected \o job.text, job.text)
          ELSE IF msg = null \/ msg.concat = null \/ s._concat = FALSE
          THEN readMessage_settled(s, "resolved", msg, job.text)
          ELSE Issue(s, "AT+CMGL=4", TerminatorCR, StoredStep(2), job.text)
     ELSE IF k = 2
     THEN IF ~ok THEN readMessage_settled(s, "rejected", StrUnexpected \o job.text, job.text)
          ELSE readMessage_settled(s, "resolved", target_message, job.text)
     ELSE IF k = 3
     THEN IF ~ok THEN Finish(s, op, "rejected", StrReferenceError)
          ELSE Finish(s, op, "resolved", s.locals.msg)
     ELSE IF k = 4
     THEN IF ~ok THEN Finish(s, op, "rejected", StrUnexpected \o job.text)
          ELSE IF target_message = null THEN Finish(s, op, "resolved", null)
          ELSE NextIndex([s EXCEPT !.locals.msg = target_message,
                                   !.locals.index_list = target_message.concat.indexes],
                         "AT+CMGD=", job.text)
     ELSE IF ~ok
          THEN Finish(s, op, "rejected",
                      IF op = "deleteMessage" THEN StrReferenceError
                      ELSE StrUnexpected \o job.text)
          ELSE NextIndex(s, IF op = "deleteMessage" THEN "AT+CMGD=" ELSE "AT+CMSS=",
                         job.text)

\* SmsTransceiver.close()
SmsTransceiver_close(s) == SmsModem_close(s)

\* SmsTransceiver.execCommand(cmd, options)
SmsTransceiver_execCommand(s, cmd) == execCommand(s, cmd, TerminatorCR, User)

----------------------------------------------------------------------------
(* SerialPort: completion of open and close, as the listeners of SmsModem and *)
(* SmsTransceiver see it                                                     *)

\* this.emit('serial-open') of SmsModem, n times; the once-listeners of
\* SmsTransceiver all run at the first one
RECURSIVE EmitSerialOpen(_, _)
EmitSerialOpen(s, n) ==
  IF n = 0 THEN s
  ELSE EmitSerialOpen([EmitN(s, s.modem_once_open, Event("serial-open", <<>>))
                         EXCEPT !.modem_once_open = 0], n - 1)

\* this.emit('serial-close') of SmsModem, n times; each once-listener of
\* SmsTransceiver removes all listeners of the modem and emits 'serial-close'
RECURSIVE EmitSerialClose(_, _)
EmitSerialClose(s, n) ==
  IF n = 0 THEN s
  ELSE EmitSerialClose(
         IF s.modem_once_close > 0
         THEN [EmitN(s, s.modem_once_close, Event("serial-close", <<>>))
                 EXCEPT !.modem_once_open = 0, !.modem_once_close = 0, !.modem_on = 0]
         ELSE s, n - 1)

\* the port is open: 'open' is emitted, then the callback of port.open runs
PortOpened(s) ==
  LET s1 == [EmitSerialOpen([s EXCEPT !.port_state = "open", !.initialized = FALSE],
                            s.port_once_open)
               EXCEPT !.port_once_open = 0]
  IN Settle(s1, "modem.open", "", InitStep(0), "resolved", <<>>)

\* the port could not be opened: the callback of port.open gets the error
PortOpenFailed(s) ==
  Settle([s EXCEPT !.port_state = "closed"],
         "modem.open", "", InitStep(0), "open-error", <<>>)

\* the port is closed: 'close' is emitted, then the callback of port.close runs
PortClosed(s) ==
  LET s1 == [EmitSerialClose([s EXCEPT !.port_state = "closed"], s.port_once_close)
               EXCEPT !.port_once_close = 0]
  IN Settle(s1, "close", "", User, "resolved", <<>>)

----------------------------------------------------------------------------
(* Turns of the event loop *)

Idle == microtasks = <<>>

\* a turn that may start a command finds a closure and a write slot to use
Room == Len(closures) < MaxClosures /\ Cardinality(Writing(State)) < MaxWrites

UserCommands == {"AT+CSQ"}

Open ==
  /\ Idle
  /\ port_state # "closing"
  /\ port_state # "open" => modem_on < MaxListeners /\ port_on_data < MaxListeners
  /\ Becomes(SmsTransceiver_open(Turn("open", <<>>)))

Close ==
  /\ Idle
  /\ Becomes(SmsTransceiver_close(Turn("close", <<>>)))

ExecCommand ==
  /\ Idle
  /\ Room
  /\ \E cmd \in UserCommands :
       Becomes(SmsTransceiver_execCommand(Turn("execCommand", <<>>), cmd))

\* the application calls execCommand although the port is not open
ExecCommandNotOpen ==
  /\ Idle
  /\ port_state # "open"
  /\ \E cmd \in UserCommands :
       Becomes(SmsTransceiver_execCommand(Turn("execCommand", <<>>), cmd))

OpenDone ==
  /\ Idle
  /\ Room
  /\ port_state = "opening"
  /\ Becomes(PortOpened(Turn("port-open", <<>>)))

OpenFail ==
  /\ Idle
  /\ port_state = "opening"
  /\ Becomes(PortOpenFailed(Turn("port-open-error", <<>>)))

CloseDone ==
  /\ Idle
  /\ port_state = "closing"
  /\ Becomes(PortClosed(Turn("port-close", <<>>)))

\* the port delivers one of the chunks of set
ReceiveFrom(set) ==
  /\ Idle
  /\ Room
  /\ port_state = "open"
  /\ \E buf \in set :
       /\ Len(PortData(Turn("data", buf), port_on_data, buf)._response_data) <= MaxResponseLen
       /\ Becomes(PortData(Turn("data", buf), port_on_data, buf))

Receive == ReceiveFrom(Chunks)

ReceiveReply == ReceiveFrom(ReplyChunks)

Timeout ==
  /\ Idle
  /\ \E id \in 1..Len(closures) :
       /\ closures[id].timer
       /\ Becomes(TimerFired(Turn("timeout", <<>>), id))

WriteDone ==
  /\ Idle
  /\ Writing(State) # {}
  /\ Becomes(WriteCallback(Turn("write-done", <<>>), FALSE))

WriteFail ==
  /\ Idle
  /\ Writing(State) # {}
  /\ Becomes(WriteCallback(Turn("write-error", <<>>), TRUE))

\* the oldest queued promise reaction runs
Resume ==
  /\ microtasks # <<>>
  /\ LET job == Head(microtasks)
         s == [Turn("resume", <<>>) EXCEPT !.microtasks = Tail(@)]
     IN IF job.owner.kind = "init"
        THEN Becomes(SmsTransceiver_open_resume(s, job))
        ELSE IF job.owner.kind = "send"
        THEN Becomes(sendMessage_resume(s, job))
        ELSE IF job.owner.kind = "write"
        THEN Becomes(writeSubmitMessage_resume(s, job))
        ELSE IF job.owner.kind = "csq"
        THEN Becomes(getSignalQuality_resume(s, job))
        ELSE IF job.owner.kind = "cpms"
        THEN Becomes(setMessageStorage_resume(s, job))
        ELSE IF job.owner.kind = "stored"
        THEN Becomes(stored_resume(s, job))
        ELSE Becomes(_handleSmsMessageEvent_resume(s, job))

\* the messages the modem receives, by the storage index it gives them: a
\* message of its own, then the second and the first part of a concatenated
\* message
PduSingle == <<"A", "1">>
PduPart1 == <<"C", "7", "1", "2", "E", "1">>
PduPart2 == <<"C", "7", "2", "2", "E", "2">>

Storage == <<PduSingle, PduPart2, PduPart1>>

\* "\r\n+CMTI: \"SM\",<index>\r\n"
ChunkCMTIFor(index) ==
  CRLF \o StrCMTI \o <<" ", "\"", "S", "M", "\"", ",", Digits[index + 1]>> \o CRLF

\* "\r\n+CMGR: 0,,<n>\r\n<pdu>\r\n\r\nOK\r\n": the answer to AT+CMGR
ChunkCMGR(hex) ==
  CRLF \o StrCMGR \o <<" ", "0", ",", ",", Digits[Len(hex) + 1]>> \o CRLF
       \o hex \o CRLF \o CRLF \o StrOK \o CRLF

\* the modem stores a message it received and announces it with +CMTI
Announce ==
  /\ Idle
  /\ Room
  /\ port_state = "open"
  /\ \E index \in (1..Len(Storage)) \ modem_stored :
       LET buf == ChunkCMTIFor(index)
           s == [Turn("data", buf) EXCEPT !.modem_stored = @ \cup {index}]
       IN /\ Len(PortData(s, port_on_data, buf)._response_data) <= MaxResponseLen
          /\ Becomes(PortData(s, port_on_data, buf))

\* the modem answers the AT+CMGR that is in flight for a message it stores
Answer ==
  /\ Idle
  /\ port_state = "open"
  /\ _onresponse # NoId
  /\ closures[_onresponse].owner.kind = "live"
  /\ closures[_onresponse].owner.k \in modem_stored
  /\ LET buf == ChunkCMGR(Storage[closures[_onresponse].owner.k])
     IN Becomes(PortData(Turn("data", buf), port_on_data, buf))

Init ==
  /\ port_state = "closed"
  /\ port_once_open = 0
  /\ port_once_close = 0
  /\ port_on_data = 0
  /\ _response_waiting = FALSE
  /\ _onresponse = NoId
  /\ _response_data = <<>>
  /\ closures = <<>>
  /\ modem_once_open = 0
  /\ modem_once_close = 0
  /\ modem_on = 0
  /\ microtasks = <<>>
  /\ modem_stored = {}
  /\ _concat = TRUE
  /\ _event_concat_messages = <<>>
  /\ act = [name |-> "new", buf |-> <<>>]
  /\ calls = <<>>
  /\ settled = <<>>
  /\ emitted = <<>>
  /\ initialized = FALSE
  /\ inbox = <<>>
  /\ listed = <<>>
  /\ locals = NoCall

\* open() has resolved on a new SmsTransceiver: the port is open, the listeners
\* of open() are in place, no command is in flight
InitOpened ==
  /\ port_state = "open"
  /\ port_once_open = 0
  /\ port_once_close = 1
  /\ port_on_data = 1
  /\ _response_waiting = FALSE
  /\ _onresponse = NoId
  /\ _response_data = <<>>
  /\ closures = <<>>
  /\ modem_once_open = 0
  /\ modem_once_close = 1
  /\ modem_on = 1
  /\ microtasks = <<>>
  /\ modem_stored = {}
  /\ _concat = TRUE
  /\ _event_concat_messages = <<>>
  /\ act = [name |-> "new", buf |-> <<>>]
  /\ calls = <<>>
  /\ settled = <<>>
  /\ emitted = <<>>
  /\ initialized = TRUE
  /\ inbox = <<>>
  /\ listed = <<>>
  /\ locals = NoCall

\* the transport of an open session: commands of the application, chunks of the
\* modem, timers, write callbacks, close()
Next ==
  \/ ExecCommand
  \/ Receive
  \/ Timeout
  \/ WriteDone
  \/ WriteFail
  \/ Resume
  \/ Close
  \/ CloseDone

Spec == InitOpened /\ [][Next]_vars

\* the life cycle of a session from its construction: open(), close(), the port
\* opening or failing to open, and the initialization commands;
\* the application itself calls execCommand only while the port is not open
NextSession ==
  \/ Open
  \/ ExecCommandNotOpen
  \/ OpenDone
  \/ OpenFail
  \/ Close
  \/ CloseDone
  \/ ReceiveReply
  \/ Timeout
  \/ WriteDone
  \/ WriteFail
  \/ Resume

SpecSession == Init /\ [][NextSession]_vars

\* open() has resolved and the application has chosen the concat mode
InitLive ==
  /\ port_state = "open"
  /\ port_once_open = 0
  /\ port_once_close = 1
  /\ port_on_data = 1
  /\ _response_waiting = FALSE
  /\ _onresponse = NoId
  /\ _response_data = <<>>
  /\ closures = <<>>
  /\ modem_once_open = 0
  /\ modem_once_close = 1
  /\ modem_on = 1
  /\ microtasks = <<>>
  /\ modem_stored = {}
  /\ _concat \in BOOLEAN
  /\ _event_concat_messages = <<>>
  /\ act = [name |-> "new", buf |-> <<>>]
  /\ calls = <<>>
  /\ settled = <<>>
  /\ emitted = <<>>
  /\ initialized = TRUE
  /\ inbox = <<>>
  /\ listed = <<>>
  /\ locals = NoCall

\* live receive on an open session: the modem announces the messages it
\* receives and answers the reads; timers and write callbacks as before
NextLive ==
  \/ Announce
  \/ Answer
  \/ Timeout
  \/ WriteDone
  \/ WriteFail
  \/ Resume

SpecLive == InitLive /\ [][NextLive]_vars

MaxPdus == 2

Dests == {<<"+", "8", "1">>, <<"8", "+">>}

\* the application sends a text that needs n PDUs (none: the empty text)
SendMessage ==
  /\ Idle
  /\ Room
  /\ ~locals.running
  /\ \E dest \in Dests, n \in 0..MaxPdus :
       Becomes(sendMessage(Turn("sendMessage", <<>>), dest, n))

\* the application stores a text that needs n PDUs
WriteSubmitMessage ==
  /\ Idle
  /\ Room
  /\ ~locals.running
  /\ \E dest \in Dests, n \in 0..MaxPdus :
       Becomes(writeSubmitMessage(Turn("writeSubmitMessage", <<>>), dest, n))

\* "\r\n+CMGS: 5\r\n\r\nOK\r\n": the message was sent
ChunkCMGS ==
  CRLF \o <<"+", "C", "M", "G", "S", ":", " ", "5">> \o CRLF \o CRLF \o StrOK \o CRLF

\* "\r\n+CMGW: <index>\r\n\r\nOK\r\n": the message was stored at index
ChunkCMGW(index) ==
  CRLF \o StrCMGW \o <<" ", Digits[index + 1]>> \o CRLF \o CRLF \o StrOK \o CRLF

SubmitChunks ==
  {ChunkPrompt, ChunkCMGS, ChunkCMGW(5), ChunkCMGW(6), ChunkOK, ChunkERROR, ChunkCMS}

\* the modem answers while a command is in flight
ReceiveSubmit ==
  /\ _onresponse # NoId
  /\ ReceiveFrom(SubmitChunks)

\* sending and storing messages on an open session: the calls of the
\* application, one at a time, the answers of the modem, timers, write callbacks
NextSubmit ==
  \/ SendMessage
  \/ WriteSubmitMessage
  \/ ReceiveSubmit
  \/ Timeout
  \/ WriteDone
  \/ WriteFail
  \/ Resume

SpecSubmit == InitOpened /\ [][NextSubmit]_vars

\* the signal strengths and bit error rates a modem reports in +CSQ
Raws == {0, 1, 15, 30, 31, 32, 99}

Bers == {0, 99}

\* the decimal digits of n
RECURSIVE DigitsOf(_)
DigitsOf(n) ==
  IF n < 10 THEN <<Digits[n + 1]>> ELSE DigitsOf(n \div 10) \o <<Digits[(n % 10) + 1]>>

\* "\r\n+CSQ: <raw>,<ber>\r\n\r\nOK\r\n"
ChunkCSQFor(raw, ber) ==
  CRLF \o StrCSQTag \o <<" ">> \o DigitsOf(raw) \o <<",">> \o DigitsOf(ber)
       \o CRLF \o CRLF \o StrOK \o CRLF

\* "\r\n+CPMS: "ME",1,8,"ME",1,8,"ME",1,8\r\n\r\nOK\r\n"
ChunkCPMS ==
  CRLF \o <<"+">> \o StrCPMS \o <<":", " ">>
       \o <<"\"", "M", "E", "\"", ",", "1", ",", "8", ",">>
       \o <<"\"", "M", "E", "\"", ",", "1", ",", "8", ",">>
       \o <<"\"", "M", "E", "\"", ",", "1", ",", "8">>
       \o CRLF \o CRLF \o StrOK \o CRLF

\* the arguments of setMessageStorage: omitted, a storage, not a storage
Mems == {<<>>, <<"ME">>, <<"XX">>}

\* the application asks for the signal quality
GetSignalQuality ==
  /\ Idle
  /\ Room
  /\ ~locals.running
  /\ Becomes(getSignalQuality(Turn("getSignalQuality", <<>>)))

\* the application sets the message storages
SetMessageStorage ==
  /\ Idle
  /\ Room
  /\ ~locals.running
  /\ \E memr \in Mems, memw \in Mems, mems \in Mems :
       Becomes(setMessageStorage(Turn("setMessageStorage", <<>>), memr, memw, mems))

\* the modem answers the command in flight
ReceiveQuery ==
  /\ Idle
  /\ port_state = "open"
  /\ _onresponse # NoId
  /\ _response_data = <<>>
  /\ \E buf \in {ChunkCPMS, ChunkOK, ChunkERROR}
                \cup {ChunkCSQFor(raw, ber) : raw \in Raws, ber \in Bers} :
       Becomes(PortData(Turn("data", buf), port_on_data, buf))

\* the queries of an open session: the calls of the application, one at a
\* time, the answers of the modem, timers, write callbacks
NextQuery ==
  \/ GetSignalQuality
  \/ SetMessageStorage
  \/ ReceiveQuery
  \/ Timeout
  \/ WriteDone
  \/ WriteFail
  \/ Resume

SpecQuery == InitOpened /\ [][NextQuery]_vars

\* the modem answers the AT+CSQ that is in flight
AnswerQuery ==
  /\ Idle
  /\ port_state = "open"
  /\ _onresponse # NoId
  /\ closures[_onresponse].owner.kind = "csq"
  /\ Becomes(PortData(Turn("data", ChunkCSQOK), port_on_data, ChunkCSQOK))

\* live receive while the application uses the session: it calls
\* getSignalQuality, each call after the one before it has ended, and the
\* modem announces the messages it receives at any time
NextCalls ==
  \/ GetSignalQuality
  \/ AnswerQuery
  \/ Announce
  \/ Answer
  \/ Timeout
  \/ WriteDone
  \/ WriteFail
  \/ Resume

SpecCalls == InitLive /\ [][NextCalls]_vars

\* the PDUs a modem may hold: a message of its own, the parts of a message of
\* two parts and the parts of a message of three parts
Pdu3Part(sequence) ==
  <<"C", "7", Digits[sequence + 1], "3", "F", Digits[sequence + 1]>>

Pdus == {PduSingle, PduPart1, PduPart2, Pdu3Part(1), Pdu3Part(2), Pdu3Part(3)}

MaxInbox == 3

\* the modem lists its messages from the highest storage index down
IndexOf(j) == Len(inbox) + 1 - j

\* the orders in which a modem may list n messages
ListingOrders(n) ==
  {order \in [1..n -> 1..n] : \A i, j \in 1..n : order[i] = order[j] => i = j}

\* "+CMGL: <index>,1,,<n>\n<pdu>\n" for each message, in the order given
RECURSIVE Listing(_)
Listing(order) ==
  IF order = <<>> THEN <<>>
  ELSE LET j == Head(order)
       IN StrCMGL \o <<" ", Digits[IndexOf(j) + 1], ",", "1", ",", ",",
                         Digits[Len(inbox[j]) + 1], LF>>
            \o inbox[j] \o <<LF>> \o Listing(Tail(order))

\* the response execCommand resolves to for AT+CMGL
ResponseCMGL(order) == _trimFirstLastLineBreaks(Listing(order) \o <<LF>> \o StrOK)

\* the response execCommand resolves to for AT+CMGR of the message listed as entry j
ResponseCMGR(j) == _trimFirstLastLineBreaks(ChunkCMGR(inbox[j]))

\* listMessages() after its await
listMessages_resume(s, cmgl) ==
  IF ~AtLineStart(cmgl, StrOK) THEN [s EXCEPT !.listed = <<Thrown>>]
  ELSE [s EXCEPT !.listed = <<_parseMessageList(cmgl, s._concat)>>]

\* the application lists the messages once and the modem has answered, with
\* the messages in an order of its own
ListMessages ==
  /\ Idle
  /\ listed = <<>>
  /\ \E order \in ListingOrders(Len(inbox)) :
       Becomes(listMessages_resume(Turn("list", ResponseCMGL(order)), ResponseCMGL(order)))

\* a message of the modem is read after its +CMTI, each message once; the
\* list does not depend on the reads, and is taken before them
ReadLive ==
  /\ Idle
  /\ listed # <<>>
  /\ \E j \in 1..Len(inbox) :
       /\ IndexOf(j) \notin modem_stored
       /\ LET s == [Turn("resume", <<>>) EXCEPT !.modem_stored = @ \cup {IndexOf(j)}]
          IN Becomes(_handleSmsMessageEvent_resume(s,
               [owner |-> LiveRead(IndexOf(j)), outcome |-> "resolved",
                text |-> ResponseCMGR(j)]))

\* an open session in either concat mode, and a modem holding some messages
InitReassembly ==
  /\ port_state = "open"
  /\ port_once_open = 0
  /\ port_once_close = 1
  /\ port_on_data = 1
  /\ _response_waiting = FALSE
  /\ _onresponse = NoId
  /\ _response_data = <<>>
  /\ closures = <<>>
  /\ modem_once_open = 0
  /\ modem_once_close = 1
  /\ modem_on = 1
  /\ microtasks = <<>>
  /\ modem_stored = {}
  /\ _concat \in BOOLEAN
  /\ _event_concat_messages = <<>>
  /\ act = [name |-> "new", buf |-> <<>>]
  /\ calls = <<>>
  /\ settled = <<>>
  /\ emitted = <<>>
  /\ initialized = TRUE
  /\ inbox \in UNION {[1..n -> Pdus] : n \in 0..MaxInbox}
  /\ listed = <<>>
  /\ locals = NoCall

\* reassembly as a function of the messages: the list of all of them, and the
\* reads of live receive in any order
NextReassembly ==
  \/ ListMessages
  \/ ReadLive

SpecReassembly == InitReassembly /\ [][NextReassembly]_vars

MaxLines == 3

\* "+CMGL: <index>,1,,2": the header of the message at index
HeaderCMGL(index) == StrCMGL \o <<" ", Digits[index + 1], ",", "1", ",", ",", "2">>

\* the lines a modem may send in answer to AT+CMGL before the line OK:
\* headers, the PDUs of two messages of their own, and a line that is neither
ListingLines == {HeaderCMGL(1), HeaderCMGL(2), <<"A", "1">>, <<"B", "2">>, StrCSQ}

RECURSIVE JoinLines(_)
JoinLines(lines) ==
  IF lines = <<>> THEN <<>> ELSE Head(lines) \o <<LF>> \o JoinLines(Tail(lines))

\* the application lists the messages and the modem has answered with up to
\* MaxLines lines and OK
ListLines ==
  /\ Idle
  /\ \E n \in 0..MaxLines :
       \E lines \in [1..n -> ListingLines] :
         LET cmgl == JoinLines(lines) \o StrOK
         IN Becomes(listMessages_resume(Turn("list", cmgl), cmgl))

\* _parseMessageList as a function of the lines of the response
NextParse == ListLines

SpecParse == InitLive /\ [][NextParse]_vars

\* what the modems of the stored operations hold: nothing; a message of its
\* own and the two parts of another in between; the first and the last of
\* three parts; a part stored twice
Inboxes ==
  {<<>>,
   <<PduPart2, PduSingle, PduPart1>>,
   <<Pdu3Part(3), Pdu3Part(1)>>,
   <<PduPart2, PduPart1, PduPart1>>}

\* a modem that holds the messages of inbox at the indexes of modem_stored
InitStored ==
  /\ port_state = "open"
  /\ port_once_open = 0
  /\ port_once_close = 1
  /\ port_on_data = 1
  /\ _response_waiting = FALSE
  /\ _onresponse = NoId
  /\ _response_data = <<>>
  /\ closures = <<>>
  /\ modem_once_open = 0
  /\ modem_once_close = 1
  /\ modem_on = 1
  /\ microtasks = <<>>
  /\ _concat \in BOOLEAN
  /\ _event_concat_messages = <<>>
  /\ act = [name |-> "new", buf |-> <<>>]
  /\ calls = <<>>
  /\ settled = <<>>
  /\ emitted = <<>>
  /\ initialized = TRUE
  /\ inbox \in Inboxes
  /\ modem_stored = 1..Len(inbox)
  /\ listed = <<>>
  /\ locals = NoCall

\* str with "\r\n" for each "\n"
RECURSIVE WithCR(_)
WithCR(str) ==
  IF str = <<>> THEN <<>>
  ELSE (IF Head(str) = LF THEN CRLF ELSE <<Head(str)>>) \o WithCR(Tail(str))

\* the entries of inbox the modem still holds, from the highest index down
Held == SelectSeq([j \in 1..Len(inbox) |-> j], LAMBDA j : IndexOf(j) \in modem_stored)

\* "\r\n+CMGL: ...\r\n<pdu>\r\n...\r\nOK\r\n": the answer to AT+CMGL
ChunkCMGL == WithCR(<<LF>> \o Listing(Held) \o <<LF>> \o StrOK \o <<LF>>)

\* the command in flight
InFlight == closures[_onresponse].cmd

\* the modem answers buf, and holds the messages of stored from then on
Answers(buf, stored) ==
  Becomes(PortData([Turn("data", buf) EXCEPT !.modem_stored = stored], port_on_data, buf))

\* the modem answers the command in flight: AT+CMGR with the message, or for
\* an index it does not hold with OK or ERROR; AT+CMGL with the messages it
\* holds; AT+CMGD with OK, and the message is gone, or ERROR; AT+CMSS with OK
\* or ERROR
ReceiveStored ==
  /\ Idle
  /\ port_state = "open"
  /\ _onresponse # NoId
  /\ _response_data = <<>>
  /\ \/ \E index \in 0..(Len(inbox) + 1) :
          /\ InFlight = "AT+CMGR=" \o ToString(index)
          /\ IF index \in modem_stored
             THEN Answers(ChunkCMGR(inbox[Len(inbox) + 1 - index]), modem_stored)
             ELSE \E buf \in {ChunkOK, ChunkERROR} : Answers(buf, modem_stored)
     \/ /\ InFlight = "AT+CMGL=4"
        /\ Answers(ChunkCMGL, modem_stored)
     \/ \E index \in 0..(Len(inbox) + 1) :
          /\ InFlight = "AT+CMGD=" \o ToString(index)
          /\ \/ Answers(ChunkOK, modem_stored \ {index})
             \/ Answers(ChunkERROR, modem_stored)
     \/ \E index \in 0..(Len(inbox) + 1) :
          /\ InFlight = "AT+CMSS=" \o ToString(index)
          /\ \E buf \in {ChunkOK, ChunkERROR} : Answers(buf, modem_stored)

StoredOps == {"readMessage", "deleteMessage", "sendStoredMessage"}

\* the application reads, deletes or sends a stored message
StoredCall ==
  /\ Idle
  /\ Room
  /\ ~locals.running
  /\ \E op \in StoredOps, index \in {-1} \cup 1..(Len(inbox) + 1) :
       Becomes(stored_call(Turn(op, <<>>), op, index))

\* the stored messages of an open session: the calls of the application, one
\* at a time, the answers of the modem, timers, write callbacks
NextStored ==
  \/ StoredCall
  \/ ReceiveStored
  \/ Timeout
  \/ WriteDone
  \/ WriteFail
  \/ Resume

SpecStored == InitStored /\ [][NextStored]_vars

----------------------------------------------------------------------------
(* Properties: vocabulary *)

\* the variables of the program, without the observations
program == <<port_state, port_once_open, port_once_close, port_on_data,
             _response_waiting, _onresponse, _response_data, closures,
             modem_once_open, modem_once_close, modem_on, microtasks,
             _concat, _event_concat_messages>>

\* the execCommand promises that passed both checks and are not settled
Pending == {id \in 1..Len(closures) : closures[id].timer}

\* the execCommand promises settled in the last turn with the outcome out
SettledAs(out) ==
  {i \in 1..Len(settled) : settled[i].op = "execCommand" /\ settled[i].outcome = out}

\* the events of the name emitted in the last turn
Emitted(name) == {i \in 1..Len(emitted) : emitted[i].name = name}

\* (^|\n)OK, (^|\n)ERROR or (^|\n)> matches str
LineStartMatch(str) ==
  AtLineStart(str, StrOK) \/ AtLineStart(str, StrERROR) \/ AtLineStart(str, StrPrompt)

----------------------------------------------------------------------------
(* Properties of the transport *)

\* C1: at most one command is outstanding: never two execCommand promises that
\* both passed the busy check and are both unsettled.
C1_AtMostOneOutstanding == Cardinality(Pending) <= 1

\* the response buffer after the chunk of the next turn is appended to it
BufferAfter == _response_data \o _trimFirstLastLineBreaks(act'.buf)

\* the next turn appends a chunk that makes the response buffer match
MatchTurn == act'.name = "data" /\ _response_waiting /\ LineStartMatch(BufferAfter)

\* C2 as stated: an admitted execCommand settles in one of two ways only: it
\* resolves at a chunk that makes the response buffer match OK, ERROR or '> '
\* at a line start (and every such match resolves the command in flight), or
\* it rejects with TIMEOUT when its timer fires.
C2_ResolveIffMatchElseTimeout ==
  [][/\ \A i \in 1..Len(settled') :
          settled'[i].op = "execCommand" /\ settled'[i].outcome \notin {"busy", "closed"}
            => \/ settled'[i].outcome = "resolved" /\ MatchTurn
               \/ settled'[i].outcome = "TIMEOUT" /\ act'.name = "timeout"
     /\ MatchTurn /\ _onresponse # NoId
          => \E i \in 1..Len(settled') : settled'[i].outcome = "resolved"]_vars

\* C2, amended: an admitted execCommand resolves only at a chunk that makes the
\* response buffer match OK, ERROR or '> ' at a line start, with that buffer as
\* its value, and every such match resolves the command whose response handler
\* is installed; a timer that fires rejects its command with TIMEOUT; the
\* only other settlement is the rejection with the write error when the write
\* of the command fails.
C2_Settlement ==
  [][/\ \A i \in 1..Len(settled') :
          settled'[i].op = "execCommand" /\ settled'[i].outcome \notin {"busy", "closed"}
            => \/ /\ settled'[i].outcome = "resolved"
                  /\ MatchTurn
                  /\ settled'[i].text = BufferAfter
               \/ settled'[i].outcome = "TIMEOUT" /\ act'.name = "timeout"
               \/ settled'[i].outcome = "write-error" /\ act'.name = "write-error"
     /\ MatchTurn /\ _onresponse # NoId
          => \E i \in 1..Len(settled') :
               /\ settled'[i].outcome = "resolved"
               /\ settled'[i].cmd = closures[_onresponse].cmd
     /\ act'.name = "timeout" => SettledAs("TIMEOUT")' # {}]_vars

\* a command resolved with a response that took more than one chunk
C2_Witness ==
  /\ act.name = "data"
  /\ \E i \in SettledAs("resolved") :
       /\ LineStartMatch(settled[i].text)
       /\ Len(settled[i].text) > Len(_trimFirstLastLineBreaks(act.buf))

\* C3: execCommand called while another command is in flight (admitted and not
\* settled) is rejected at once with the busy error; it writes nothing and
\* leaves the command in flight, its timer, its handler and the response
\* buffer as they are.
C3_BusyWhileInFlight ==
  [][act'.name = "execCommand" /\ port_state = "open" /\ Pending # {}
       => /\ Len(settled') = 1
          /\ settled'[1].outcome = "busy"
          /\ calls'[1].outcome = "busy"
          /\ emitted' = <<>>
          /\ UNCHANGED program]_vars

\* C4: execCommand called while the port is not open (open() has not completed,
\* or close() was called) is rejected with the port-closed error; it writes
\* nothing and does not take the slot.
C4_ClosedRejected ==
  [][act'.name = "execCommand" /\ port_state # "open"
       => /\ Len(settled') = 1
          /\ settled'[1].outcome = "closed"
          /\ calls'[1].outcome = "closed"
          /\ emitted' = <<>>
          /\ UNCHANGED program]_vars

\* a call was rejected as closed while open() had not completed, the slot free
C4_Witness ==
  /\ act.name = "execCommand"
  /\ SettledAs("closed") # {}
  /\ port_state = "opening"
  /\ ~_response_waiting

\* the chunk of the next turn is, taken alone, a terminated response
OwnTerminator == LineStartMatch(_trimFirstLastLineBreaks(act'.buf))

\* C5: a timeout releases the slot and leaves the port open; the execCommand
\* issued next is admitted, and it resolves at the chunk that carries its own
\* response terminator.
C5_ReleasedAfterTimeout ==
  [][/\ act'.name = "timeout" => ~_response_waiting' /\ port_state' = port_state
     /\ act.name = "timeout" /\ act'.name = "execCommand" /\ port_state = "open"
          => calls'[1].outcome = "admitted"
     /\ (/\ act'.name = "data"
         /\ _onresponse # NoId
         /\ closures[_onresponse].after_timeout
         /\ OwnTerminator)
          => \E i \in SettledAs("resolved")' :
               settled'[i].cmd = closures[_onresponse].cmd]_vars

\* C6: close() rejects the command in flight with the port-closed error: when
\* the port has closed no execCommand promise is pending and the slot is free,
\* and no command ends as a timeout after close() was called.
C6_CloseRejectsPending ==
  [][/\ act'.name = "port-close" => Pending' = {} /\ ~_response_waiting'
     /\ act'.name = "timeout" => port_state = "open"]_vars

\* C7: the text an execCommand resolves with never contains a +CMTI
\* notification that arrived while the command was in flight.
C7_NoNotificationInResponse ==
  \A i \in SettledAs("resolved") : ~Contains(settled[i].text, StrCMTI)

\* the failure reports of a modem: ERROR, +CME ERROR: <n>, +CMS ERROR: <n>
FailureReports == {ChunkERROR, ChunkCME, ChunkCMS}

\* C8: a failure report ends the response as OK does: when the chunk ERROR,
\* +CME ERROR: <n> or +CMS ERROR: <n> answers the command in flight, the
\* command resolves with the text received.
C8_FailureReportTerminates ==
  [][(/\ act'.name = "data"
      /\ act'.buf \in FailureReports
      /\ _onresponse # NoId
      /\ _response_data = <<>>)
       => \E i \in SettledAs("resolved")' :
            settled'[i].text = _trimFirstLastLineBreaks(act'.buf)]_vars

----------------------------------------------------------------------------
(* Properties of the session *)

\* C9: open() and close() are idempotent for the lifecycle events: however
\* often open() was called, the port coming open produces exactly one
\* serial-open event; however often close() was called, no call fails and the
\* port closing produces at most one serial-close event.
C9_IdempotentLifecycle ==
  /\ act.name = "port-open" => Cardinality(Emitted("serial-open")) = 1
  /\ act.name = "port-close" => Cardinality(Emitted("serial-close")) <= 1
  /\ act.name = "close" => \A i \in 1..Len(settled) : settled[i].outcome = "resolved"

\* the promise reaction the next turn runs
Job == Head(microtasks)

\* C10: open() of a closed transceiver writes the six commands of cmd_list in
\* their order, each after the response to the one before it was received;
\* it resolves when the sixth is answered; and the write of each command
\* fires one at-command event with the command.
C10_InitSequence ==
  [][/\ \A i \in 1..Len(calls') :
          calls'[i].owner.kind = "init"
            => /\ act'.name = "resume"
               /\ Job.owner = InitStep(calls'[i].owner.k - 1)
               /\ Job.outcome = "resolved"
               /\ calls'[i].cmd = cmd_list[calls'[i].owner.k]
     /\ \A i \in 1..Len(settled') :
          act'.name = "resume" /\ settled'[i].op = "open" /\ settled'[i].outcome = "resolved"
            => Job.owner = InitStep(Len(cmd_list)) /\ Job.outcome = "resolved"
     /\ (/\ act'.name = "write-done"
         /\ port_state = "open"
         /\ closures[OldestWrite(State)].owner.kind = "init")
          => /\ Cardinality(Emitted("at-command")') = 1
             /\ emitted'[1] = Event("at-command", <<closures[OldestWrite(State)].cmd>>)]_vars

\* the open() promises settled in the last turn with the outcome out
OpenSettledAs(out) ==
  {i \in 1..Len(settled) : settled[i].op = "open" /\ settled[i].outcome = out}

\* C11: when the response to one of the six initialization commands does not
\* contain OK, open() fails fast: it rejects and sends none of the commands
\* that remain.
C11_InitFailsFast ==
  [][(/\ act'.name = "resume"
      /\ Job.owner.kind = "init"
      /\ Job.owner.k >= 1
      /\ Job.outcome = "resolved"
      /\ ~Contains(Job.text, StrOK))
       => /\ calls' = <<>>
          /\ \E i \in 1..Len(settled') :
               settled'[i].op = "open" /\ settled'[i].outcome # "resolved"]_vars

\* C12: whenever a call of open() resolves, the six initialization commands
\* have been sent and answered since the port opened.
C12_InitBeforeResolve ==
  OpenSettledAs("resolved") # {} => initialized

----------------------------------------------------------------------------
(* Properties of live receive *)

\* the sms-message events of SmsTransceiver emitted in the last turn
Delivered == Emitted("sms-message")

\* the storage index the modem announces in the next turn
Announced == CHOOSE index \in modem_stored' \ modem_stored : TRUE

\* C13: a +CMTI chunk received while no command is outstanding is published
\* as at-notification and raises the inbound-SMS event with (storage, index);
\* the session reads that index with AT+CMGR; and when the read of a message
\* that is not concatenated is answered, exactly one sms-message event is
\* emitted for it.
C13_NotifiedThenRead ==
  [][/\ (act'.name = "data" /\ modem_stored' # modem_stored /\ Pending = {})
          => /\ Cardinality(Emitted("at-notification")') = 1
             /\ \A i \in Emitted("at-notification")' :
                  emitted'[i].arg = _trimFirstLastLineBreaks(act'.buf)
             /\ Cardinality(Emitted("SmsModem.sms-message")') = 1
             /\ \A i \in Emitted("SmsModem.sms-message")' :
                  emitted'[i] = Notified(<<"S", "M">>, Announced)
             /\ calls' = <<[cmd |-> "AT+CMGR=" \o ToString(Announced),
                            owner |-> LiveRead(Announced),
                            outcome |-> "admitted"]>>
     /\ (/\ act'.name = "resume"
         /\ Job.owner.kind = "live"
         /\ Job.outcome = "resolved"
         /\ SmsPdu_parse(Storage[Job.owner.k]).concat = null)
          => /\ Cardinality(Delivered') = 1
             /\ \A i \in Delivered' :
                  /\ emitted'[i].arg.index = Job.owner.k
                  /\ emitted'[i].arg.text = SmsPdu_parse(Storage[Job.owner.k]).text]_vars

\* the storage index of the part with the sequence number, and its text
PartIndex(sequence) ==
  CHOOSE index \in 1..Len(Storage) :
    /\ SmsPdu_parse(Storage[index]).concat # null
    /\ SmsPdu_parse(Storage[index]).concat.sequence = sequence

PartText(sequence) == SmsPdu_parse(Storage[PartIndex(sequence)]).text

\* the sequence numbers of the message of msg that were read before
ReadBefore(msg) ==
  {q \in 1..msg.concat.total :
     \E i \in WithKey(_event_concat_messages, Key(msg)) :
       /\ q <= Len(_event_concat_messages[i].indexes)
       /\ _event_concat_messages[i].indexes[q] # UndefinedIndex}

\* the part the next turn has read
PartRead == _readMessage_parse(Job.owner.k, Job.text)

\* C15: in live receive with concat enabled, when the parts of a concatenated
\* message are announced and read in any order, no sms-message event is
\* emitted for it before the last part has been read, and the read of the
\* last part emits exactly one: its text is the parts in sequence order, its
\* concat.indexes are the storage indexes in sequence order, and it has no
\* concat.sequence.
C15_OneEventAfterLastPart ==
  [][(/\ act'.name = "resume"
      /\ _concat
      /\ Job.owner.kind = "live"
      /\ Job.outcome = "resolved"
      /\ PartRead # Thrown
      /\ PartRead # null
      /\ PartRead.concat # null)
       => IF ReadBefore(PartRead) \cup {PartRead.concat.sequence}
               = 1..PartRead.concat.total
          THEN /\ Cardinality(Delivered') = 1
               /\ \A i \in Delivered' :
                    /\ emitted'[i].arg.text = PartText(1) \o PartText(2)
                    /\ emitted'[i].arg.concat.indexes = <<PartIndex(1), PartIndex(2)>>
                    /\ "sequence" \notin DOMAIN emitted'[i].arg.concat
               /\ WithKey(_event_concat_messages', Key(PartRead)) = {}
          ELSE Delivered' = {}]_vars

\* the message was delivered whole after its second part arrived first
C15_Witness ==
  /\ act.name = "resume"
  /\ _concat
  /\ \E i \in Delivered :
       /\ emitted[i].arg.concat # null
       /\ emitted[i].arg.index = PartIndex(2)
       /\ emitted[i].arg.concat.indexes = <<PartIndex(1), PartIndex(2)>>

----------------------------------------------------------------------------
(* Properties of reassembly *)

Totals == {2, 3}

Pdu(j) == SmsPdu_parse(inbox[j])

\* the messages of the modem that are parts of the message of total parts
Parts(total) ==
  {j \in 1..Len(inbox) : Pdu(j).concat # null /\ Pdu(j).concat.total = total}

PartsAt(total, sequence) == {j \in Parts(total) : Pdu(j).concat.sequence = sequence}

\* each sequence 1..total exactly once
CompleteInput(total) ==
  \A sequence \in 1..total : Cardinality(PartsAt(total, sequence)) = 1

Missing(total) == {sequence \in 1..total : PartsAt(total, sequence) = {}}

PartWith(total, sequence) == CHOOSE j \in PartsAt(total, sequence) : TRUE

\* the texts of the parts from sequence on, a part missing as '[?]'
RECURSIVE SlotTexts(_, _)
SlotTexts(total, sequence) ==
  IF sequence > total THEN <<>>
  ELSE (IF sequence \in Missing(total) THEN StrUnknown
        ELSE Pdu(PartWith(total, sequence)).text) \o SlotTexts(total, sequence + 1)

SlotIndexes(total) ==
  [sequence \in 1..total |->
     IF sequence \in Missing(total) THEN UndefinedIndex
     ELSE IndexOf(PartWith(total, sequence))]

\* the entries of the list returned that belong to the message of total parts
ListedOf(total) ==
  {i \in 1..Len(listed[1]) :
     listed[1][i].concat # null /\ listed[1][i].concat.total = total}

InOrder(msg, total) ==
  /\ msg.text = SlotTexts(total, 1)
  /\ msg.concat.indexes = SlotIndexes(total)

\* C14: when the modem holds each part 1..total of a message exactly once, in
\* any order, the list returned with concat enabled has one entry for the
\* message and every sms-message emitted for it with concat enabled is merged:
\* its text is the texts of the parts in ascending sequence order and
\* concat.indexes[i-1] is the storage index of the part of sequence i
C14_MergedInSequenceOrder ==
  \A total \in Totals :
    (CompleteInput(total) /\ _concat) =>
      /\ listed # <<>> =>
           /\ Cardinality(ListedOf(total)) = 1
           /\ \A i \in ListedOf(total) : InOrder(listed[1][i], total)
      /\ \A e \in Delivered :
           (emitted[e].arg.concat # null /\ emitted[e].arg.concat.total = total)
             => InOrder(emitted[e].arg, total)

\* the three parts are listed from storage indexes that do not follow their
\* sequence, and both the list and the live reads have merged them
C14_Witness ==
  /\ _concat
  /\ inbox = <<Pdu3Part(1), Pdu3Part(3), Pdu3Part(2)>>
  /\ listed # <<>>
  /\ Cardinality(ListedOf(3)) = 1
  /\ \E e \in Delivered : emitted[e].arg.concat # null
  /\ modem_stored = {1, 2, 3}

\* C16: a list taken with concat enabled while a part of a message was never
\* received retains the message with '[?]' as the text of every part never
\* received and an undefined entry of concat.indexes for it
C16_FlushMarksMissing ==
  (act.name = "list" /\ _concat /\ listed # <<>>) =>
    \A total \in Totals :
      (Parts(total) # {} /\ Missing(total) # {}) =>
        /\ ListedOf(total) # {}
        /\ \A i \in ListedOf(total) : InOrder(listed[1][i], total)

IndexesOnly(msg) ==
  msg.concat # null =>
    ("indexes" \in DOMAIN msg.concat /\ "sequence" \notin DOMAIN msg.concat)

SequenceOnly(msg) ==
  msg.concat # null =>
    ("sequence" \in DOMAIN msg.concat /\ "indexes" \notin DOMAIN msg.concat)

\* the messages that left the library: the list returned and the events emitted
Outgoing ==
  {emitted[e].arg : e \in Delivered}
    \cup (IF listed = <<>> THEN {} ELSE {listed[1][i] : i \in 1..Len(listed[1])})

\* C17: a message returned by listMessages or emitted as sms-message whose
\* concat is not null has concat.indexes and no concat.sequence when concat is
\* enabled, and concat.sequence and no concat.indexes when it is disabled
C17_IndexesXorSequence ==
  \A msg \in Outgoing : IF _concat THEN IndexesOnly(msg) ELSE SequenceOnly(msg)

\* with concat enabled a list holds a merged and a flushed message, with
\* concat disabled the parts are listed and emitted as they are
C17_Witness ==
  /\ listed # <<>>
  /\ \E msg \in Outgoing : msg.concat # null
  /\ \/ _concat /\ CompleteInput(2) /\ Missing(3) # {} /\ Parts(3) # {}
     \/ ~_concat /\ Parts(2) # {} /\ \E e \in Delivered : emitted[e].arg.concat # null

\* C26: the list listMessages returns is in strictly ascending order of index,
\* with concat enabled or disabled and in whatever order the modem listed the
\* messages, and the response that is only OK gives the empty list
C26_ListAscending ==
  act.name = "list" =>
    /\ \A i \in 1..Len(listed[1]) - 1 : listed[1][i].index < listed[1][i + 1].index
    /\ act.buf = StrOK => listed[1] = <<>>

\* three messages, two of them the parts of one, were listed neither upwards
\* nor downwards; or the modem held none
C26_Witness ==
  /\ act.name = "list"
  /\ \/ /\ inbox = <<PduPart2, PduSingle, PduPart1>>
        /\ act.buf = ResponseCMGL(<<2, 1, 3>>)
        /\ Len(listed[1]) = (IF _concat THEN 2 ELSE 3)
     \/ /\ act.buf = StrOK
        /\ listed = << <<>> >>

----------------------------------------------------------------------------
(* Properties of sendMessage and writeSubmitMessage *)

\* the promises of op settled in this turn
Ended(op) == {i \in 1..Len(settled) : settled[i].op = op}

FirstChar(str) == IF str = <<>> THEN "" ELSE Head(str)

\* C18: when sendMessage resolves for a text of N PDUs it resolves with no
\* value and has written exactly 2N commands: for each PDU in order
\* AT+CMGS=<length> with terminator 0x0D (the first in the call, the others
\* after the response with OK to the PDU before), then the hex PDU with
\* terminator 0x1A after the response that starts with '>'
C18_TwoCommandsPerPdu ==
  \A i \in Ended("sendMessage") :
    settled[i].outcome = "resolved" =>
      /\ settled[i].text = <<>>
      /\ Len(locals.log) = 2 * Len(locals.pdu_list)
      /\ \A j \in 1..Len(locals.pdu_list) :
           /\ locals.log[2 * j - 1].cmd = "AT+CMGS=" \o ToString(locals.pdu_list[j].length)
           /\ locals.log[2 * j - 1].terminator = 13
           /\ IF j = 1 THEN locals.log[1].after = <<>>
              ELSE Contains(<<LF>> \o locals.log[2 * j - 1].after, <<LF>> \o StrOK)
           /\ locals.log[2 * j].cmd = locals.pdu_list[j].hex
           /\ locals.log[2 * j].terminator = 26
           /\ FirstChar(locals.log[2 * j].after) = ">"

\* a message of two PDUs was sent
C18_Witness ==
  /\ \E i \in Ended("sendMessage") : settled[i].outcome = "resolved"
  /\ Len(locals.pdu_list) = 2
  /\ Len(locals.log) = 4

\* res is not the response the k-th await of sendMessage goes on after
Deviates(k, res) ==
  IF k % 2 = 1 THEN FirstChar(res) # ">"
  ELSE ~Contains(<<LF>> \o res, <<LF>> \o StrOK)

\* sendMessage resumes with a response that deviates: its promise rejects in
\* that turn with 'Unexpected response: ' and the response, and no command is
\* written; while no sendMessage or writeSubmitMessage runs, no command is
\* written at all
AbortsOnResponse ==
  /\ (/\ microtasks # <<>>
      /\ Job.owner.kind = "send"
      /\ Job.outcome = "resolved"
      /\ Deviates(Job.owner.k, Job.text))
     => /\ settled' = <<[op |-> "sendMessage", cmd |-> "", owner |-> User,
                          outcome |-> "rejected",
                          text |-> StrUnexpected \o Job.text]>>
        /\ calls' = <<>>
        /\ locals'.log = locals.log
        /\ ~locals'.running
  /\ (~locals.running /\ act'.name \notin {"sendMessage", "writeSubmitMessage"})
     => (calls' = <<>> /\ ~locals'.running)

\* the modem answers the command of sendMessage that is in flight, nothing
\* received for it before, with a reply that deviates: sendMessage is resumed
\* with that reply
ReplyReaches ==
  (/\ act'.name = "data"
   /\ _onresponse # NoId
   /\ closures[_onresponse].owner.kind = "send"
   /\ closures[_onresponse].timer
   /\ _response_data = <<>>
   /\ Deviates(closures[_onresponse].owner.k, _trimFirstLastLineBreaks(act'.buf)))
  => microtasks' = <<[owner |-> closures[_onresponse].owner, outcome |-> "resolved",
                      text |-> _trimFirstLastLineBreaks(act'.buf)]>>

\* C19: the first response of the modem that deviates (to AT+CMGS one that does
\* not start with '>', to a PDU one without OK) aborts sendMessage: its promise
\* rejects with an error that carries that response, no command of a later PDU
\* and no command that undoes the PDUs sent is written
C19_FirstDeviationAborts == [][AbortsOnResponse /\ ReplyReaches]_vars

\* C20: when writeSubmitMessage rejects after it has stored PDUs, the error
\* names the storage index of each PDU stored
C20_ProgressInError ==
  \A i \in Ended("writeSubmitMessage") :
    settled[i].outcome # "resolved" =>
      \A j \in 1..Len(locals.index_list) :
        Contains(settled[i].text, <<Digits[locals.index_list[j] + 1]>>)

\* the slots of a bucket that hold a fragment
Filled(cmsg) == {i \in 1..Len(cmsg.indexes) : cmsg.indexes[i] # UndefinedIndex}

\* C30: a bucket of live receive has total slots, counts as many fragments as
\* it has slots filled, so that a fragment received again for a slot does not
\* bring it nearer to completion, and a message is emitted as merged only when
\* every slot is filled
C30_CountsSlotsFilled ==
  /\ \A b \in 1..Len(_event_concat_messages) :
       /\ Len(_event_concat_messages[b].indexes) = _event_concat_messages[b].total
       /\ _event_concat_messages[b].num = Cardinality(Filled(_event_concat_messages[b]))
  /\ \A e \in Delivered :
       (_concat /\ emitted[e].arg.concat # null) =>
         \A i \in 1..Len(emitted[e].arg.concat.indexes) :
           emitted[e].arg.concat.indexes[i] # UndefinedIndex

----------------------------------------------------------------------------
(* Properties of late responses *)

\* C29: a chunk of a response that arrives in the turn after its command has
\* timed out, while no command is in flight, is dropped: nothing of it stays in
\* the response buffer and no at-response and no at-notification is emitted
\* for it
C29_LateChunkDiscarded ==
  [][(/\ act.name = "timeout"
      /\ act'.name = "data"
      /\ ~_response_waiting
      /\ act'.buf # ChunkCMTI)
     => /\ _response_data' = <<>>
        /\ Emitted("at-response")' = {}
        /\ Emitted("at-notification")' = {}]_vars

\* C25: when writeSubmitMessage resolves for a text of N PDUs it resolves with
\* N integers, the k-th the index of the response '+CMGW: <idx>' with OK to
\* the k-th PDU, and it has written for each PDU in order AT+CMGW=<length>,2
\* with terminator 0x0D, then the hex PDU with terminator 0x1A after the
\* response that starts with '>'
C25_IndexPerPdu ==
  [][(/\ microtasks # <<>>
      /\ Job.owner.kind = "write"
      /\ \E i \in Ended("writeSubmitMessage")' : settled'[i].outcome = "resolved")
     => LET N == Len(locals.pdu_list)
        IN \A i \in Ended("writeSubmitMessage")' :
             /\ Len(settled'[i].text) = N
             /\ Len(locals'.log) = 2 * N
             /\ \A k \in 1..N :
                  /\ \E idx \in 0..9 :
                       /\ (IF k < N THEN locals.log[2 * k + 1].after ELSE Job.text)
                            = StrCMGW \o <<" ", Digits[idx + 1], LF, LF>> \o StrOK
                       /\ settled'[i].text[k] = idx
                  /\ locals.log[2 * k - 1].cmd
                       = "AT+CMGW=" \o ToString(locals.pdu_list[k].length) \o ",2"
                  /\ locals.log[2 * k - 1].terminator = 13
                  /\ locals.log[2 * k].cmd = locals.pdu_list[k].hex
                  /\ locals.log[2 * k].terminator = 26
                  /\ FirstChar(locals.log[2 * k].after) = ">"]_vars

\* a message of two PDUs was stored at the indexes 5 and 6
C25_Witness ==
  \E i \in Ended("writeSubmitMessage") :
    /\ settled[i].outcome = "resolved"
    /\ settled[i].text = <<5, 6>>
    /\ Len(locals.pdu_list) = 2

----------------------------------------------------------------------------
(* Properties of the queries *)

\* the response execCommand resolves to for a chunk of the modem
ResponseOf(chunk) == _trimFirstLastLineBreaks(chunk)

\* C27: for the response '+CSQ: <raw>,<ber>' with OK, getSignalQuality resolves
\* with rssi -113 for raw 0, -113 + 2*raw for raw 1..30, -51 for raw 31 and
\* null for any other raw, and with ber as the integer received
C27_RssiMapping ==
  [][\A raw \in Raws, ber \in Bers :
       (/\ microtasks # <<>>
        /\ Job.owner.kind = "csq"
        /\ Job.outcome = "resolved"
        /\ Job.text = ResponseOf(ChunkCSQFor(raw, ber)))
       => settled' = <<[op |-> "getSignalQuality", cmd |-> "", owner |-> User,
                        outcome |-> "resolved",
                        text |-> [rssi |-> IF raw = 0 THEN <<-113>>
                                           ELSE IF raw \in 1..30 THEN <<-113 + 2 * raw>>
                                           ELSE IF raw = 31 THEN <<-51>>
                                           ELSE Null,
                                  ber |-> <<ber>>]]>>]_vars

\* C28: setMessageStorage called with memr 'SM' or 'ME' and memw or mems
\* omitted writes AT+CPMS with memr in the place of each storage omitted
C28_OmittedStorageIsMemr ==
  [][\A memr \in {"SM", "ME"} :
       (/\ act'.name = "setMessageStorage"
        /\ Len(calls') = 1
        /\ calls'[1].cmd \in {"AT+CPMS=\"" \o memr \o "\",\"" \o w \o "\",\"" \o x \o "\"" :
                                 w \in {"SM", "ME", "undefined"},
                                 x \in {"SM", "ME", "undefined"}})
       => calls'[1].cmd \in {"AT+CPMS=\"" \o memr \o "\",\"" \o w \o "\",\"" \o x \o "\"" :
                                w \in {"SM", "ME"}, x \in {"SM", "ME"}}]_vars

----------------------------------------------------------------------------
(* Properties of the stored messages *)

\* op resumes with a response of the modem
Resumes(op) ==
  /\ microtasks # <<>>
  /\ Job.owner.kind = "stored"
  /\ Job.outcome = "resolved"
  /\ locals.op = op

HasOK(res) == Contains(<<LF>> \o res, <<LF>> \o StrOK)

\* the index of the command prefix<index>, -1 for another command
IndexIn(cmd, prefix) ==
  IF \E idx \in 0..9 : cmd = prefix \o ToString(idx)
  THEN CHOOSE idx \in 0..9 : cmd = prefix \o ToString(idx)
  ELSE -1

\* the indexes of the commands prefix<index> of log, in the order written
IssuedFor(log, prefix) ==
  SelectSeq([i \in 1..Len(log) |-> IndexIn(log[i].cmd, prefix)], LAMBDA idx : idx >= 0)

\* the storage indexes of the fragments of a message
FragmentIndexes(msg) ==
  IF msg.concat # null /\ "indexes" \in DOMAIN msg.concat
  THEN SelectSeq(msg.concat.indexes, LAMBDA idx : idx # UndefinedIndex)
  ELSE <<msg.index>>

\* the first line of res is no +CMGR header or the second no uppercase hex PDU
NoMessageIn(res) ==
  LET lines == SplitLines(res)
  IN ~HasPrefix(lines[1], StrCMGR) \/ Len(lines) < 2 \/ ~IsHex(lines[2])

\* C21: readMessage resolves with null, and does not reject, when the first
\* line of the response to AT+CMGR is not a +CMGR header or the second line is
\* not an uppercase hex PDU: so when the modem answers only OK, and when it
\* answers ERROR
C21_NullWhenNoMessage ==
  [][(Resumes("readMessage") /\ Job.owner.k = 1 /\ NoMessageIn(Job.text))
     => /\ Len(settled') = 1
        /\ settled'[1].op = "readMessage"
        /\ settled'[1].outcome = "resolved"
        /\ settled'[1].text = null]_vars

\* the parts the modem holds of the concatenated message that the part at
\* index belongs to, as entries of inbox
Fragments(index) ==
  {j \in 1..Len(inbox) :
     /\ IndexOf(j) \in modem_stored
     /\ index \in 1..Len(inbox)
     /\ SmsPdu_parse(inbox[j]).concat # null
     /\ SmsPdu_parse(inbox[Len(inbox) + 1 - index]).concat # null
     /\ SmsPdu_parse(inbox[j]).concat.reference
          = SmsPdu_parse(inbox[Len(inbox) + 1 - index]).concat.reference
     /\ SmsPdu_parse(inbox[j]).concat.total
          = SmsPdu_parse(inbox[Len(inbox) + 1 - index]).concat.total}

\* index is the lowest index of the parts of a message held in several parts
FirstOfSeveral(index) ==
  /\ index \in modem_stored
  /\ Cardinality(Fragments(index)) >= 2
  /\ \A j \in Fragments(index) : index <= IndexOf(j)

\* index is the index of another part of such a message
OtherOfSeveral(index) ==
  /\ index \in modem_stored
  /\ Cardinality(Fragments(index)) >= 2
  /\ \E j \in Fragments(index) : IndexOf(j) < index

\* C22: with concat enabled, a message held in several parts is reached only
\* by the index of its first part: with the index of another part readMessage
\* and deleteMessage resolve with null and sendStoredMessage rejects as not
\* found; with the index of the first part readMessage resolves with the
\* merged entry, and deleteMessage and sendStoredMessage go on to resolve
\* while the modem answers with OK
C22_OnlyByFirstIndex ==
  [][\A op \in StoredOps :
       (Resumes(op) /\ _concat /\ HasOK(Job.text)) =>
         /\ OtherOfSeveral(locals.index) =>
              /\ \A i \in 1..Len(settled') :
                   /\ settled'[i].outcome = (IF op = "sendStoredMessage" THEN "rejected"
                                             ELSE "resolved")
                   /\ settled'[i].text = (IF op = "sendStoredMessage" THEN StrNotFound
                                          ELSE null)
              /\ \A i \in 1..Len(calls') :
                   /\ IndexIn(calls'[i].cmd, "AT+CMGD=") < 0
                   /\ IndexIn(calls'[i].cmd, "AT+CMSS=") < 0
         /\ (FirstOfSeveral(locals.index) \/ (locals.msg # null /\ Job.owner.k = 5)) =>
              \A i \in 1..Len(settled') :
                /\ settled'[i].outcome = "resolved"
                /\ op # "sendStoredMessage" =>
                     /\ settled'[i].text # null
                     /\ settled'[i].text.index = locals.index
                     /\ "indexes" \in DOMAIN settled'[i].text.concat]_vars

\* C23: deleteMessage writes no AT+CMGD and resolves with null when the message
\* is not found; while the responses have OK it writes one AT+CMGD=<index>
\* for a message of its own, one AT+CMGD=<idx> for each fragment index of a
\* merged message, in their order, and resolves with the message read; the
\* first response to AT+CMGD without OK rejects it and no command follows
C23_DeletesWhatItRead ==
  [][Resumes("deleteMessage") =>
       /\ (HasOK(Job.text) /\ Len(settled') > 0) =>
            /\ Len(settled') = 1
            /\ settled'[1].outcome = "resolved"
            /\ IssuedFor(locals'.log, "AT+CMGD=")
                 = (IF settled'[1].text = null THEN <<>>
                    ELSE FragmentIndexes(settled'[1].text))
       /\ (~HasOK(Job.text) /\ Job.owner.k \in {3, 5}) =>
            /\ Len(settled') = 1
            /\ settled'[1].outcome = "rejected"
            /\ calls' = <<>>]_vars

\* C24: sendStoredMessage, having read the message, writes AT+CMSS=<idx> once
\* for each fragment index in the order of concat.indexes (for index alone
\* when the message is one of its own or concat is disabled), each after the
\* response with OK to the one before, and resolves; the first response
\* without OK rejects it and no command follows
C24_SendsEachFragment ==
  [][Resumes("sendStoredMessage") =>
       /\ (HasOK(Job.text) /\ Len(settled') > 0 /\ locals'.msg # null) =>
            /\ Len(settled') = 1
            /\ settled'[1].outcome = "resolved"
            /\ IssuedFor(locals'.log, "AT+CMSS=")
                 = (IF _concat THEN FragmentIndexes(locals'.msg) ELSE <<locals.index>>)
            /\ \A i \in 1..Len(locals'.log) :
                 IndexIn(locals'.log[i].cmd, "AT+CMSS=") >= 0 => HasOK(locals'.log[i].after)
       /\ (~HasOK(Job.text) /\ Job.owner.k = 5) =>
            /\ Len(settled') = 1
            /\ settled'[1].outcome = "rejected"
            /\ settled'[1].text = StrUnexpected \o Job.text
            /\ calls' = <<>>]_vars

\* the chunks that carry the last line of a response alone: OK, ERROR
TerminatorChunks == {ChunkOK, ChunkERROR}

\* the response buffer and the line of the next turn's chunk, with the line
\* break between them that the port delivered
JoinedLines ==
  IF _response_data = <<>>
  THEN {_trimFirstLastLineBreaks(act'.buf)}
  ELSE {_response_data \o <<LF>> \o _trimFirstLastLineBreaks(act'.buf),
        _response_data \o CRLF \o _trimFirstLastLineBreaks(act'.buf)}

\* C33: the terminator is detected however the bytes are split into chunks:
\* when the chunk that carries the line OK or ERROR arrives for the command in
\* flight, after chunks that carried the lines before it, the command resolves
\* in that turn, and the text keeps the line break between the lines.
C33_ChunkSplitResolves ==
  [][(/\ act'.name = "data"
      /\ act'.buf \in TerminatorChunks
      /\ _response_waiting
      /\ _onresponse # NoId
      /\ closures[_onresponse].timer)
       => \E i \in SettledAs("resolved")' : settled'[i].text \in JoinedLines]_vars

\* C34: the response buffer is empty when a command takes the slot: in every
\* turn that admits a command the buffer is empty at the end of the turn.
C34_BufferEmptyAtAdmission ==
  [][(\E i \in 1..Len(calls') : calls'[i].outcome = "admitted")
       => _response_data' = <<>>]_vars

\* C35: the slot of the command in flight is released by that command only:
\* the write-error callback of an earlier command, whose promise has settled
\* (its timer has fired, or it has resolved), leaves the slot taken and the
\* response handler of the later command set.
C35_ForeignWriteErrorKeepsSlot ==
  [][(/\ act'.name = "write-error"
      /\ _response_waiting
      /\ _onresponse # NoId
      /\ OldestWrite(State) # _onresponse
      /\ ~closures[OldestWrite(State)].timer)
       => _response_waiting' /\ _onresponse' # NoId]_vars

\* the execCommand promises that were admitted and settled in the last turn
Ends ==
  {i \in 1..Len(settled) :
     settled[i].op = "execCommand" /\ settled[i].outcome \notin {"busy", "closed"}}

\* the commands admitted in the last turn
Admissions == {i \in 1..Len(calls) : calls[i].outcome = "admitted"}

\* C39: an admitted execCommand promise settles once: every settlement ends
\* one promise that was pending, as a resolution, a TIMEOUT or a write error,
\* and a promise that is not pending is not settled again. A command that
\* resolves has one at-response event, with the text it resolves with, and
\* at-response is emitted in no other turn: not when a timer fires, and not
\* while no command is in flight.
C39_SettlesOnceWithItsResponse ==
  [][/\ Cardinality(Pending') =
          Cardinality(Pending) + Cardinality(Admissions') - Cardinality(Ends')
     /\ \A i \in Ends' : settled'[i].outcome \in {"resolved", "TIMEOUT", "write-error"}
     /\ Cardinality(Ends') <= 1
     /\ Cardinality(Emitted("at-response")') = Cardinality(SettledAs("resolved")')
     /\ \A i \in Emitted("at-response")' :
          /\ act'.name = "data"
          /\ _response_waiting
          /\ _onresponse \in Pending
          /\ \A j \in SettledAs("resolved")' :
               /\ settled'[j].text = emitted'[i].arg
               /\ settled'[j].cmd = closures[_onresponse].cmd]_vars

\* a response of two lines resolved the command in flight, and at-response
\* carried it
C39_Witness ==
  /\ act.name = "data"
  /\ Cardinality(SettledAs("resolved")) = 1
  /\ Cardinality(Emitted("at-response")) = 1
  /\ \A i \in Emitted("at-response") : emitted[i].arg = _trimFirstLastLineBreaks(ChunkCSQOK)
  /\ \A j \in SettledAs("resolved") : settled[j].text = _trimFirstLastLineBreaks(ChunkCSQOK)

\* C37: after any sequence of open() and close() calls each chunk the port
\* delivers is processed once: the turn of a chunk has one serial-data event,
\* at most one at-response or at-notification event, and at most one live
\* read started.
C37_ChunkProcessedOnce ==
  act.name = "data"
    => /\ Cardinality(Emitted("serial-data")) = 1
       /\ Cardinality(Emitted("at-response")) + Cardinality(Emitted("at-notification")) <= 1
       /\ Len(calls) <= 1

\* the live reads started in the last turn
LiveReads == {i \in 1..Len(calls) : calls[i].owner.kind = "live"}

\* C32: no new-message indication is lost. The session reads a stored message
\* in the turn of its +CMTI and at no other time, so every +CMTI the modem
\* sends on the open, initialized session, also one that arrives while a
\* command is in flight, starts the read of the index it announces.
C32_EveryIndicationRead ==
  [][/\ LiveReads' # {} => act'.name = "data" /\ modem_stored' # modem_stored
     /\ (act'.name = "data" /\ modem_stored' # modem_stored /\ initialized)
          => \E i \in LiveReads' :
               /\ calls'[i].cmd = "AT+CMGR=" \o ToString(Announced)
               /\ calls'[i].outcome = "admitted"]_vars

\* C36: operations the application runs one at a time on an initialized
\* session are never rejected as busy, whatever +CMTI the modem sends in
\* between: no getSignalQuality ends with the error of a command in flight.
C36_NeverBusyOneAtATime ==
  \A i \in 1..Len(settled) :
    settled[i].op = "getSignalQuality" => settled[i].outcome # "busy"

\* every slot of the merged message holds the storage index of a fragment
AllSlots(msg) ==
  \A i \in 1..Len(msg.concat.indexes) : msg.concat.indexes[i] # UndefinedIndex

\* C38: a merged message is finalized as complete only when every slot
\* 1..total of its bucket holds a fragment received: an entry of the list
\* merged without '[?]' in its text, and every sms-message emitted as merged,
\* has all its slots filled, also when a sequence number was received twice.
C38_CompleteOnlyWhenAllSlots ==
  /\ (_concat /\ listed # <<>>) =>
       \A i \in 1..Len(listed[1]) :
         (listed[1][i].concat # null /\ ~Contains(listed[1][i].text, StrUnknown))
           => AllSlots(listed[1][i])
  /\ \A e \in Delivered :
       (_concat /\ emitted[e].arg.concat # null) => AllSlots(emitted[e].arg)

\* the merged message has a slot of concat.indexes without a fragment
HasMissing(msg) ==
  /\ msg.concat # null
  /\ "indexes" \in DOMAIN msg.concat
  /\ \E i \in 1..Len(msg.concat.indexes) : msg.concat.indexes[i] = UndefinedIndex

\* C40: deleteMessage and sendStoredMessage with concat enabled, on a merged
\* message of which some fragments are not stored, skip the slots without a
\* fragment: while the modem answers with OK they do not reject, and they end
\* resolved having written AT+CMGD or AT+CMSS for each fragment index that is
\* present, in order.
C40_SkipsMissingSlots ==
  [][\A op \in {"deleteMessage", "sendStoredMessage"} :
       (/\ Resumes(op)
        /\ _concat
        /\ HasOK(Job.text)
        /\ locals'.msg # null
        /\ HasMissing(locals'.msg))
         => /\ \A i \in 1..Len(settled') : settled'[i].outcome = "resolved"
            /\ Len(settled') > 0 =>
                 IssuedFor(locals'.log,
                           IF op = "deleteMessage" THEN "AT+CMGD=" ELSE "AT+CMSS=")
                   = FragmentIndexes(locals'.msg)]_vars

\* the messages of the two states awaiting-header and awaiting-pdu: a header
\* followed at once by a hex line gives one message, and the parser awaits a
\* header again
RECURSIVE PairsOf(_)
PairsOf(lines) ==
  IF Len(lines) < 2 THEN <<>>
  ELSE IF HasPrefix(lines[1], StrCMGL) /\ IsHex(lines[2])
  THEN LET rows == _parseCsvResponseLine(StrCMGL, lines[1])
       IN <<Message(parseInt(rows[1]), parseInt(rows[2]), SmsPdu_parse(lines[2]))>>
            \o PairsOf(SubSeq(lines, 3, Len(lines)))
  ELSE PairsOf(Tail(lines))

\* C31: the parser of the AT+CMGL response awaits a header, then the PDU of
\* that header, then a header again: the list has one entry for each header
\* that is followed at once by a hex line, made of the two, and a hex line
\* that does not follow a header at once adds no entry.
C31_OneEntryPerHeader ==
  (act.name = "list" /\ listed # <<>>) =>
    LET pairs == PairsOf(SplitLines(act.buf))
    IN /\ Len(listed[1]) = Len(pairs)
       /\ \A i \in 1..Len(listed[1]) : \E k \in 1..Len(pairs) : listed[1][i] = pairs[k]
       /\ \A k \in 1..Len(pairs) : \E i \in 1..Len(listed[1]) : listed[1][i] = pairs[k]

====
